---- MODULE Spec2Model ----
(***************************************************************************)
(* Model of the WebSocket connection manager of agent-sandbox              *)
(* (src/src/websocket/connection.js, class WebSocketConnection): the       *)
(* connect / reconnect state machine, the pending-request table and the    *)
(* event-handler registry; and of the managers that share the connection:  *)
(* TerminalManager and Terminal (src/src/managers/terminal.js) and         *)
(* WatcherManager (src/src/managers/watcher.js).                           *)
(*                                                                         *)
(* JavaScript runs handlers to completion, so every action below is one    *)
(* macrotask: a public method call, a transport event (open, message,      *)
(* close, error), a timer firing or the return of an awaited promise,      *)
(* followed by the promise continuations (microtasks) it releases.         *)
(* Timers carry no clock: an armed timer may fire at any later step, which *)
(* covers every relative timing of the network and the timers.             *)
(***************************************************************************)
EXTENDS Integers, Sequences, FiniteSets, TLC

(* ----------------------------- bounds --------------------------------- *)
\* transports (WebSocket objects) alive or referenced at the same time
MaxTransports == 2
\* connect() calls in flight at the same time
MaxCalls == 2
\* sendRequest() calls made on the session
MaxRequests == 2
\* frames written by send() on the session
MaxSends == 1
\* reconnect timers that fire between two handshakes
MaxReconnects == 2
\* once('connected') wrappers registered at the same time
MaxWrappers == 2
\* handlers the caller has registered at the same time, over all events
MaxHandlers == 3
\* reconnect schedulings that disconnect() takes out of reconnectAttempts
MaxUncounted == 1
\* Terminal objects constructed on the session
MaxSessions == 2
\* terminal ids the peer uses (the first byte of a binary frame)
MaxTerminalId == 2
\* 'watch' and 'stop_watch' frames written on the session
MaxWatchFrames == 2
\* callbacks registered on the watcher at the same time, over all kinds
MaxWatchCallbacks == 3
\* closures made for one Terminal object by onData(), and by onExit()
MaxClosures == 2

(* ------------------------- program constants -------------------------- *)
maxReconnectAttempts == 10
baseReconnectDelay == 1000
maxReconnectDelay == 30000

Transports == 1..MaxTransports
Calls == 1..MaxCalls
RequestIds == 1..MaxRequests

\* type tags of inbound text messages
MsgTypes == {"connected", "ack", "progress"}

Sessions == 1..MaxSessions
TerminalIds == 1..MaxTerminalId
\* the terminalId of a reply that carries none (undefined)
undefined == 0
\* an option of the caller that is not supplied (options.onData, options.onExit, ...)
NoCallback == 0

\* `terminal:${id}`
Channel(id) ==
  CASE id = 1 -> "terminal:1"
    [] id = 2 -> "terminal:2"
    [] OTHER -> "terminal:undefined"

\* the events of binary frames
BinaryEvents == {Channel(i) : i \in TerminalIds \cup {undefined}} \cup {"binary"}
\* type tags of the terminal protocol
TerminalMsgTypes == {"terminal_created", "terminal_closed", "terminal_error", "terminal_exited"}
\* type tags of the change feed, and the callback list each one is delivered to
WatchMsgTypes == {"watch_add", "watch_change", "watch_unlink", "watch_error"}
WatchEvents == {"add", "change", "unlink", "error"}
WatchEvent(type) ==
  CASE type = "watch_add" -> "add"
    [] type = "watch_change" -> "change"
    [] type = "watch_unlink" -> "unlink"
    [] OTHER -> "error"

\* names under which the connection manager itself emits
EventNames == MsgTypes \cup {"close", "error", "reconnected", "reconnect_failed"}
                \cup BinaryEvents \cup TerminalMsgTypes \cup WatchMsgTypes

VARIABLES
  ws,                \* this.ws: 0 (null) or the transport it references
  isConnected,       \* this.isConnected
  isConnecting,      \* this.isConnecting
  shouldReconnect,   \* this.shouldReconnect
  reconnectAttempts, \* this.reconnectAttempts
  reconnectTimeout,  \* this.reconnectTimeout: "null", "pending" (armed), "stale" (a handle that fired or was cleared)
  pendingRequests,   \* this.pendingRequests: requestId -> expectedTypes of the entry
  eventHandlers,     \* this.eventHandlers: event name -> sequence of handlers
  onStatusCheck,     \* whether config.onStatusCheck was supplied
  transports,        \* state of each WebSocket object created by _connect
  connectionTimeout, \* per _connect call: its 10 s timer is armed
  attemptCall,       \* per _connect call: the connect() call its resolve/reject settle (0: settled)
  calls,             \* the connect() calls: where each one is suspended, and its outcome
  requests,          \* the sendRequest() promises
  requestTimer,      \* per request: its 30 s timer is armed
  sent,              \* messages written to a transport by ws.send, in order: the id of a
                     \* request, 0 for a frame of send(), WatchFrame, StopWatchFrame
  terminals,         \* the Terminal objects: their fields
  awaiting,          \* per request: the manager call suspended on it
  isWatching,        \* WatcherManager.isWatching
  handlers,          \* WatcherManager.handlers: kind -> sequence of callbacks
  starting,          \* per connect() call: the start() call of the watcher suspended on it
  scheduling,        \* what _scheduleReconnect did in the handler that ran last (history variable)
  sinceHandshake,    \* timers armed by _scheduleReconnect since the last handshake, counted
                     \* up to MaxUncounted above reconnectAttempts (history variable)
  invoked,           \* the caller's handlers invoked by the handler that ran last, in order (history variable)
  lastOp             \* the observed handler that ran last (history variable)

vars == <<ws, isConnected, isConnecting, shouldReconnect, reconnectAttempts,
          reconnectTimeout, pendingRequests, eventHandlers, onStatusCheck,
          transports, connectionTimeout, attemptCall, calls, requests,
          requestTimer, sent, terminals, awaiting, isWatching, handlers,
          starting, scheduling, sinceHandshake, invoked, lastOp>>

\* _scheduleReconnect was not called / armed a timer with a delay (ms) /
\* emitted 'reconnect_failed'
NoScheduling == [kind |-> "none", delay |-> 0]

\* a free slot; the slot of a call that settled keeps its outcome (result)
\* until the next handler runs
IdleCall == [pc |-> "idle", origin |-> "user", result |-> "none"]

(* ---------------------- the mutable state as a value ------------------ *)
\* Handlers and helper methods are state transformers on this record; micro
\* is the queue of promise continuations released by the running macrotask.
Cur ==
  [ws |-> ws, isConnected |-> isConnected, isConnecting |-> isConnecting,
   shouldReconnect |-> shouldReconnect, reconnectAttempts |-> reconnectAttempts,
   reconnectTimeout |-> reconnectTimeout, pendingRequests |-> pendingRequests,
   eventHandlers |-> eventHandlers, transports |-> transports,
   connectionTimeout |-> connectionTimeout, attemptCall |-> attemptCall,
   calls |-> [c \in Calls |-> IF calls[c].pc = "idle" THEN IdleCall ELSE calls[c]],
   requests |-> requests, requestTimer |-> requestTimer,
   sent |-> sent, terminals |-> terminals, awaiting |-> awaiting,
   isWatching |-> isWatching, handlers |-> handlers, starting |-> starting,
   scheduling |-> NoScheduling, sinceHandshake |-> sinceHandshake,
   invoked |-> <<>>, micro |-> <<>>]

\* a sendRequest() call: the state of its promise, what it resolved or
\* rejected with, and history fields: key (message.action || message.type),
\* explicit (expectedTypes was passed), passed (a message with its id was
\* received and not consumed), settled (calls of resolve and reject)
NoRequest == [state |-> "unused", key |-> "", explicit |-> FALSE, passed |-> FALSE,
              result |-> "", settled |-> 0]

\* values of expectedTypes: null, an array of type tags, or (for an action
\* name that Object.prototype defines) an inherited function with its length
Null == [kind |-> "null", types |-> {}, length |-> 0]
Array(types) == [kind |-> "array", types |-> types, length |-> Cardinality(types)]
Function(n) == [kind |-> "function", types |-> {}, length |-> n]
\* no entry under that key in the pendingRequests Map
Absent == [kind |-> "absent", types |-> {}, length |-> 0]
NoOp == [op |-> "", res |-> ""]

\* the once('connected') wrapper registered by the _connect call on transport
\* t; id 0: the wrapper of a call whose promise is settled, whose timer is
\* gone and whose transport is closed
ConnectedOnce(t) == [kind |-> "connected_once", id |-> t]

\* the caller's handler functions: one that returns and one that throws
Returning == 1
Throwing == 2
UserHandlers == {Returning, Throwing}
\* the events the caller registers handlers for
UserEvents == {"connected", "ack"}

\* a handler function of the caller, and the wrapper once(event, handler) makes
UserHandler(i) == [kind |-> "user", id |-> i]
OnceWrapper(i) == [kind |-> "once", id |-> i]

\* the options of TerminalManager.create / get that matter here
NoOptions == [onData |-> NoCallback, onExit |-> NoCallback]
\* a Terminal object that has not been constructed; _dataHandler and
\* _exitHandler tell whether the field holds a function (TRUE) or null, and
\* dataClosure and exitClosure which function: the n-th closure onData() or
\* onExit() made for the object, 0 for the constructor's
NoTerminal == [made |-> FALSE, id |-> undefined,
               onDataCallback |-> NoCallback, onExitCallback |-> NoCallback,
               _dataHandler |-> FALSE, _exitHandler |-> FALSE,
               dataClosure |-> 0, exitClosure |-> 0]
\* the closures the constructor of Terminal object s registers on the
\* connection
DataHandler(s) == [kind |-> "data", id |-> s, closure |-> 0]
ExitHandler(s) == [kind |-> "exit", id |-> s, closure |-> 0]
\* a handler the caller registers on the connection for an event of binary
\* frames; its invocation is recorded with its argument
Listener == [kind |-> "listener", id |-> 0]
\* the arrow functions WatcherManager registers on the connection
WatchListener(type) == [kind |-> "watch", id |-> 0, event |-> WatchEvent(type)]

\* no manager call is suspended on the request; otherwise kind is "create"
\* (TerminalManager.create, with its options), "manager_close"
\* (TerminalManager.close, with the terminal id) or "close" (Terminal.close of
\* a session)
NoAwait == [kind |-> "none", session |-> 0, terminalId |-> undefined, options |-> NoOptions]

\* no start() call awaits the connect() call; otherwise its options and
\* closedSend: what ws.send does on a closing or closed socket in this
\* WebSocket implementation ("throws" or "discarded")
NoStart == [active |-> FALSE, options |-> 0, closedSend |-> ""]

\* WatcherManager._setupEventListeners, called by the constructor
_setupEventListeners(registry) ==
  [e \in DOMAIN registry |->
     IF e \in WatchMsgTypes THEN Append(registry[e], WatchListener(e)) ELSE registry[e]]

RemoveAt(s, i) == SubSeq(s, 1, i - 1) \o SubSeq(s, i + 1, Len(s))

IndexOf(s, h) ==
  IF \E i \in 1..Len(s) : s[i] = h
  THEN CHOOSE i \in 1..Len(s) : s[i] = h /\ \A j \in 1..(i - 1) : s[j] # h
  ELSE 0

(* ------------------------ event handler registry ---------------------- *)
on(st, event, h) ==
  [st EXCEPT !.eventHandlers[event] = Append(@, h)]

off(st, event, h) ==
  LET i == IndexOf(st.eventHandlers[event], h)
  IN IF i > 0 THEN [st EXCEPT !.eventHandlers[event] = RemoveAt(@, i)] ELSE st

(* ------------------------- Terminal and watcher ------------------------ *)
\* new Terminal(connection, terminalId, options), as object s
Terminal(st, s, terminalId, options) ==
  LET s1 == [st EXCEPT !.terminals[s] =
               [made |-> TRUE, id |-> terminalId,
                onDataCallback |-> options.onData, onExitCallback |-> options.onExit,
                _dataHandler |-> options.onData # NoCallback,
                _exitHandler |-> options.onExit # NoCallback,
                dataClosure |-> 0, exitClosure |-> 0]]
      s2 == IF options.onData # NoCallback
            THEN on(s1, Channel(terminalId), DataHandler(s)) ELSE s1
  IN IF options.onExit # NoCallback THEN on(s2, "terminal_exited", ExitHandler(s)) ELSE s2

\* (mutant) a clean-up that leaves the exit handler registered
_cleanup_dataOnly(st, s) ==
  IF st.terminals[s]._dataHandler
  THEN [off(st, Channel(st.terminals[s].id),
                [DataHandler(s) EXCEPT !.closure = st.terminals[s].dataClosure])
          EXCEPT !.terminals[s]._dataHandler = FALSE]
  ELSE st

\* Terminal._cleanup of object s
_cleanup(st, s) ==
  LET s1 == IF st.terminals[s]._dataHandler
            THEN [off(st, Channel(st.terminals[s].id),
                [DataHandler(s) EXCEPT !.closure = st.terminals[s].dataClosure])
                    EXCEPT !.terminals[s]._dataHandler = FALSE]
            ELSE st
  IN IF s1.terminals[s]._exitHandler
     THEN [off(s1, "terminal_exited",
                 [ExitHandler(s) EXCEPT !.closure = s1.terminals[s].exitClosure])
             EXCEPT !.terminals[s]._exitHandler = FALSE]
     ELSE s1

\* new TextDecoder().decode(output): the code points of a UTF-8 byte
\* sequence of one- and two-byte characters; a byte that starts no valid
\* sequence decodes to U+FFFD
RECURSIVE Decode(_)
Decode(bytes) ==
  IF bytes = << >> THEN << >>
  ELSE LET b == Head(bytes)
       IN IF b < 128 THEN <<b>> \o Decode(Tail(bytes))
          ELSE IF b >= 194 /\ b <= 223 /\ Len(bytes) >= 2
                    /\ bytes[2] >= 128 /\ bytes[2] <= 191
          THEN <<(b - 192) * 64 + (bytes[2] - 128)>> \o Decode(Tail(Tail(bytes)))
          ELSE <<65533>> \o Decode(Tail(bytes))

\* (mutant) a change-feed dispatch without try/catch: the first callback that
\* throws ends it
_emit_noCatch(st, event, path) ==
  LET list == st.handlers[event]
      stop == IF \E k \in 1..Len(list) : list[k] = Throwing
              THEN CHOOSE k \in 1..Len(list) :
                     list[k] = Throwing /\ \A j \in 1..(k - 1) : list[j] # Throwing
              ELSE Len(list)
  IN [st EXCEPT !.invoked = @ \o [k \in 1..stop |-> [kind |-> event, id |-> list[k]]]]

\* WatcherManager._emit(event, path): every callback of the list is called
\* inside its own try/catch
_emit(st, event, path) ==
  [st EXCEPT !.invoked =
     @ \o [k \in 1..Len(st.handlers[event]) |-> [kind |-> event, id |-> st.handlers[event][k]]]]

\* A promise settles once: resolve/reject of a settled connect() promise is a
\* no-op (c = 0).  A call made by the reconnect timer releases the timer
\* callback's continuation.
SettleCall(st, c, res) ==
  IF c = 0 THEN st
  ELSE [st EXCEPT
          !.calls[c] = IF st.calls[c].origin = "timer" THEN IdleCall
                       ELSE [pc |-> "idle", origin |-> "user",
                             result |-> IF res = "resolved" THEN "resolved" ELSE "rejected"],
          !.attemptCall = [t \in Transports |-> IF @[t] = c THEN 0 ELSE @[t]],
          !.micro = IF st.calls[c].origin = "timer" \/ st.starting[c].active
                    THEN Append(@, [call |-> c, res |-> res]) ELSE @]

\* the handler given to once('connected', ...) in _connect
ConnectedHandler(st, t) ==
  LET s1 == [st EXCEPT !.isConnected = TRUE,
                       !.isConnecting = FALSE,
                       !.reconnectAttempts = 0,
                       !.sinceHandshake = 0]
  IN IF t = 0 THEN s1
     ELSE SettleCall([s1 EXCEPT !.connectionTimeout[t] = FALSE],
                     st.attemptCall[t], "resolved")

\* One handler invocation inside emit's try/catch.  The once() wrapper runs
\* its handler and then removes itself with off(event, wrapper).
RunHandler(st, event, h, arg) ==
  LET called == [st EXCEPT !.invoked = Append(@, h)]
  IN CASE h.kind = "connected_once" -> off(ConnectedHandler(st, h.id), event, h)
       [] h.kind = "user" -> called   \* returns, or throws into emit's catch
       [] h.kind = "once" -> IF h.id = Throwing
                             THEN called   \* handler(...args) throws: off() is not reached
                             ELSE off(called, event, h)
       [] h.kind = "listener" ->
            [st EXCEPT !.invoked = Append(@, [kind |-> "listener", event |-> event, arg |-> arg])]
       [] h.kind = "data" ->   \* _dataHandler: decode, then onDataCallback(text)
            [st EXCEPT !.invoked = Append(@, [kind |-> "onData", id |-> h.id,
                                              callback |-> st.terminals[h.id].onDataCallback,
                                              text |-> Decode(arg)])]
       [] h.kind = "exit" ->   \* _exitHandler: onExitCallback, then _cleanup
            IF arg.terminalId = st.terminals[h.id].id
            THEN LET exited == [st EXCEPT !.invoked = Append(@, [kind |-> "onExit", id |-> h.id])]
                 IN IF st.terminals[h.id].onExitCallback = Throwing
                    THEN exited
                    ELSE _cleanup(exited, h.id)
            ELSE st
       [] h.kind = "watch" -> _emit(st, h.event, arg)
       [] OTHER -> st

\* once(event, handler)
once(st, event, i) == on(st, event, OnceWrapper(i))

\* Array.prototype.forEach over the live handler array: the length is read
\* once, index k is visited only while it is still inside the array, so a
\* splice done by a handler shifts the handlers after it one place down.
RECURSIVE forEach(_, _, _, _, _)
forEach(st, event, arg, k, len) ==
  IF k > len \/ k > Len(st.eventHandlers[event]) THEN st
  ELSE forEach(RunHandler(st, event, st.eventHandlers[event][k], arg),
               event, arg, k + 1, len)

emit(st, event, arg) == forEach(st, event, arg, 1, Len(st.eventHandlers[event]))

(* ------------------------ requests and replies ------------------------ *)
has(st, r) == st.pendingRequests[r].kind # "absent"

\* resolve(message) / reject(error) of the promise sendRequest returned
SettleRequest(st, r, state, res) ==
  [st EXCEPT !.requests[r].state = state,
             !.requests[r].result = res,
             !.requests[r].settled = @ + 1]

\* the request's arguments are kept in its record while they can still matter
\* to a property: until the promise is rejected
Forget(st) ==
  [st EXCEPT !.requests = [r \in RequestIds |->
     IF @[r].state = "rejected"
     THEN [@[r] EXCEPT !.key = "", !.explicit = FALSE, !.passed = FALSE] ELSE @[r]]]

\* (mutant) a resolution that leaves the entry in the table
ResolveRequest_keepsEntry(st, r, msg) ==
  SettleRequest([st EXCEPT !.requestTimer[r] = FALSE], r, "resolved", msg.type)

\* clearTimeout(timeout); pendingRequests.delete(requestId); resolve(message)
ResolveRequest(st, r, msg) ==
  SettleRequest([st EXCEPT !.requestTimer[r] = FALSE,
                           !.pendingRequests[r] = Absent],
                r, "resolved", msg.type)

\* responseMap[action] || null; a name such as hasOwnProperty finds the
\* method Object.prototype gives the object literal
_getExpectedResponseTypes(action) ==
  CASE action = "terminal_create" -> Array({"terminal_created", "terminal_error"})
    [] action = "terminal_close" -> Array({"terminal_closed", "terminal_error"})
    [] action = "terminal_list" -> Array({"terminal_list", "terminal_error"})
    [] action = "get_state" -> Array({"terminal_state", "terminal_error"})
    [] action = "i" -> Null
    [] action = "r" -> Array({"terminal_resized", "terminal_error"})
    [] action = "hasOwnProperty" -> Function(1)
    [] action = "toString" -> Function(0)
    [] OTHER -> Null

\* truthiness of expectedTypes in `!expectedTypes` and `expectedTypes && ...`
Truthy(exp) == exp.kind # "null"

\* (mutant) a handler that resolves on any message carrying the id
_handleTextMessage_anyType(st, msg) ==
  IF msg.type = "connected" THEN emit(st, "connected", msg)
  ELSE IF msg.requestId # 0 /\ has(st, msg.requestId)
  THEN ResolveRequest(st, msg.requestId, msg)
  ELSE emit(st, msg.type, msg)

\* (mutant) a handler that matches replies to calls by arrival order: a
\* message carrying an id resolves the oldest pending call
_handleTextMessage_byArrival(st, msg) ==
  IF msg.type = "connected" THEN emit(st, "connected", msg)
  ELSE IF msg.requestId # 0 /\ \E r \in RequestIds : has(st, r)
  THEN ResolveRequest(st, CHOOSE r \in RequestIds :
                            has(st, r) /\ \A q \in RequestIds : has(st, q) => r <= q, msg)
  ELSE emit(st, msg.type, msg)

\* _handleTextMessage(data) for a frame that parses as msg
_handleTextMessage(st, msg) ==
  IF msg.type = "connected" THEN emit(st, "connected", msg)
  ELSE IF msg.requestId # 0 /\ has(st, msg.requestId)
  THEN LET exp == st.pendingRequests[msg.requestId]
           notConsumed == [st EXCEPT !.requests[msg.requestId].passed = TRUE]
       IN IF Truthy(exp) /\ exp.length > 0
          THEN IF exp.kind = "function"
               THEN notConsumed   \* expectedTypes.includes is not a function: the TypeError ends in the empty catch
               ELSE IF msg.type \in exp.types
                    THEN ResolveRequest(st, msg.requestId, msg)
                    ELSE emit(notConsumed, msg.type, msg)
          ELSE ResolveRequest(st, msg.requestId, msg)
  ELSE emit(st, msg.type, msg)

\* (mutant) a demultiplexer that emits the generic event only
_handleBinaryMessage_genericOnly(st, frame) ==
  emit(st, "binary",
       [terminalId |-> IF frame = << >> THEN undefined ELSE Head(frame),
        output |-> IF frame = << >> THEN << >> ELSE Tail(frame)])

\* _handleBinaryMessage(data) for a frame of bytes; buffer[0] of an empty
\* frame is undefined
_handleBinaryMessage(st, frame) ==
  LET terminalId == IF frame = << >> THEN undefined ELSE Head(frame)
      output == IF frame = << >> THEN << >> ELSE Tail(frame)
  IN emit(emit(st, Channel(terminalId), output),
          "binary", [terminalId |-> terminalId, output |-> output])

\* the Terminal object the next `new Terminal` makes
FreeSessions(st) == {s \in Sessions : ~st.terminals[s].made}
NewSession(st) == CHOOSE s \in FreeSessions(st) : \A u \in FreeSessions(st) : s <= u

\* TerminalManager.create after `await this.connection.sendRequest(message)`
create_resumes(st, a, response) ==
  IF response.error THEN st
  ELSE Terminal(st, NewSession(st), response.terminalId, a.options)

\* Terminal.close after its await, for object a.session
close_resumes(st, a, response) ==
  IF response.type = "terminal_error" \/ response.error THEN st
  ELSE IF response.type = "terminal_closed" THEN _cleanup(st, a.session)
  ELSE st

\* The continuation of the manager call that awaits the request a message
\* has just resolved (before: the state in which the message arrived).
\* TerminalManager.close only computes its return value.
Resume(before, st, msg) ==
  LET r == msg.requestId
  IN IF r = 0 THEN st
     ELSE IF before.requests[r].state # "pending" \/ st.requests[r].state # "resolved" THEN st
     ELSE CASE before.awaiting[r].kind = "create" -> create_resumes(st, before.awaiting[r], msg)
            [] before.awaiting[r].kind = "close" -> close_resumes(st, before.awaiting[r], msg)
            [] OTHER -> st

\* the ways a call of ws.send can end
WsSendOutcomes == {"written", "discarded", "throws"}

\* what ws.send does in the state of this.ws: a null ws and a socket that is
\* still connecting throw; a closing or closed socket throws or discards the
\* data, depending on the WebSocket implementation
SendOutcomes(st) ==
  IF st.ws = 0 THEN {"throws"}
  ELSE CASE st.transports[st.ws] = "open" -> {"written"}
         [] st.transports[st.ws] = "connecting" -> {"throws"}
         [] OTHER -> {"throws", "discarded"}

\* the (message, expectedTypes) arguments sendRequest is called with
RequestInputs ==
  {[action |-> "terminal_create", type |-> "", expectedTypes |-> Null],
   [action |-> "", type |-> "custom", expectedTypes |-> Null],
   [action |-> "hasOwnProperty", type |-> "", expectedTypes |-> Null],
   [action |-> "custom", type |-> "", expectedTypes |-> Array({"ack"})]}

\* message.action || message.type
ActionOrType(m) == IF m.action # "" THEN m.action ELSE m.type

\* the promise executor of sendRequest, for request id r
sendRequest(st, r, m, outcome) ==
  LET exp == IF ~Truthy(m.expectedTypes)
             THEN _getExpectedResponseTypes(ActionOrType(m))
             ELSE m.expectedTypes
      s1 == [st EXCEPT !.requests[r] = [state |-> "pending", key |-> ActionOrType(m),
                                        explicit |-> Truthy(m.expectedTypes),
                                        passed |-> FALSE,
                                        result |-> "", settled |-> 0],
                       !.requestTimer[r] = TRUE,
                       !.pendingRequests[r] = exp]
  IN CASE outcome = "written" -> [s1 EXCEPT !.sent = Append(@, r)]
       [] outcome = "discarded" -> s1
       [] OTHER -> SettleRequest([s1 EXCEPT !.requestTimer[r] = FALSE,
                                            !.pendingRequests[r] = Absent],
                                 r, "rejected", "send failed")

UnusedRequests == {r \in RequestIds : requests[r].state = "unused"}

\* (mutant) an id generator that hands out the same id again
_generateRequestId_repeats == CHOOSE r \in RequestIds : \A q \in RequestIds : r <= q

\* crypto.randomUUID(): an id no earlier call of the session was given
_generateRequestId == CHOOSE r \in UnusedRequests : \A q \in UnusedRequests : r <= q

(* --------------------------- reconnection ----------------------------- *)
Min(a, b) == IF a <= b THEN a ELSE b

\* Math.pow(2, n)
RECURSIVE Pow2(_)
Pow2(n) == IF n = 0 THEN 1 ELSE 2 * Pow2(n - 1)

_scheduleReconnect(st) ==
  LET cleared == IF st.reconnectTimeout # "null"
                 THEN [st EXCEPT !.reconnectTimeout = "stale"] ELSE st
      delay == Min(baseReconnectDelay * Pow2(cleared.reconnectAttempts), maxReconnectDelay)
  IN IF cleared.reconnectAttempts >= maxReconnectAttempts
     THEN emit([cleared EXCEPT !.scheduling = [kind |-> "reconnect_failed", delay |-> 0]],
               "reconnect_failed", 0)
     ELSE [cleared EXCEPT !.reconnectAttempts = @ + 1,
                          !.reconnectTimeout = "pending",
                          !.scheduling = [kind |-> "timer", delay |-> delay],
                          !.sinceHandshake = @ + 1]

\* frames written by WatcherManager: {type: 'watch'} and {type: 'stop_watch'}
WatchFrame == 0 - 1
StopWatchFrame == 0 - 2

\* the change-feed notifications
WatchMessages == [type : WatchMsgTypes, requestId : {0}]

\* the callbacks start() is called with
WatchOptions ==
  [onChange : {NoCallback} \cup UserHandlers, onAdd : {NoCallback, Returning},
   onUnlink : {NoCallback}, onError : {NoCallback}]

\* WatcherManager.on(event, handler) for a known event
Watcher_on(st, event, i) == [st EXCEPT !.handlers[event] = Append(@, i)]

\* the registrations at the end of start()
RegisterCallbacks(st, options) ==
  LET s1 == IF options.onChange # NoCallback THEN Watcher_on(st, "change", options.onChange) ELSE st
      s2 == IF options.onAdd # NoCallback THEN Watcher_on(s1, "add", options.onAdd) ELSE s1
      s3 == IF options.onUnlink # NoCallback THEN Watcher_on(s2, "unlink", options.onUnlink) ELSE s2
  IN IF options.onError # NoCallback THEN Watcher_on(s3, "error", options.onError) ELSE s3

\* WatcherManager.start after `await this._ensureConnected()`, for the call
\* that awaited connect() call c: a rejected connect() rejects start(); send()
\* throws on a session that is not connected or a socket that is not open
start_resumes(st, c, res) ==
  LET a == st.starting[c]
      s1 == [st EXCEPT !.starting[c] = NoStart]
      outcome == IF ~s1.isConnected THEN "throws"
                 ELSE IF SendOutcomes(s1) = {"throws", "discarded"} THEN a.closedSend
                 ELSE CHOOSE o \in SendOutcomes(s1) : TRUE
  IN IF res # "resolved" \/ outcome = "throws" THEN s1
     ELSE RegisterCallbacks(
            [s1 EXCEPT !.sent = IF outcome = "written" THEN Append(@, WatchFrame) ELSE @,
                       !.isWatching = TRUE], a.options)

\* (mutant) a timer callback whose catch does not call _scheduleReconnect
RECURSIVE RunMicrotasks_noRetry(_)
RunMicrotasks_noRetry(st) ==
  IF st.micro = <<>> THEN st
  ELSE LET rest == [st EXCEPT !.micro = Tail(@)]
           c == Head(st.micro).call
       IN RunMicrotasks_noRetry(IF st.starting[c].active
                                THEN start_resumes(rest, c, Head(st.micro).res)
                                ELSE IF Head(st.micro).res = "resolved"
                                THEN emit(rest, "reconnected", 0)
                                ELSE rest)

\* The continuation of the reconnect timer's callback after its
\* `await this.connect(...)`: emit('reconnected') or, in the catch,
\* _scheduleReconnect().
RECURSIVE RunMicrotasks(_)
RunMicrotasks(st) ==
  IF st.micro = <<>> THEN st
  ELSE LET rest == [st EXCEPT !.micro = Tail(@)]
           c == Head(st.micro).call
       IN RunMicrotasks(IF st.starting[c].active
                        THEN start_resumes(rest, c, Head(st.micro).res)
                        ELSE IF Head(st.micro).res = "resolved"
                        THEN emit(rest, "reconnected", 0)
                        ELSE _scheduleReconnect(rest))

(* ------------------------------ connect ------------------------------- *)
FreeTransports(st) == {t \in Transports : st.transports[t] = "none"}

NewTransport(st) ==
  CHOOSE t \in FreeTransports(st) : \A u \in FreeTransports(st) : t <= u

\* new WebSocket(fullUrl), its handlers, the 10 s timer and once('connected')
_connect(st, c) ==
  LET t == NewTransport(st)
  IN on([st EXCEPT !.isConnecting = TRUE,
                   !.ws = t,
                   !.transports[t] = "connecting",
                   !.connectionTimeout[t] = TRUE,
                   !.attemptCall[t] = c,
                   !.calls[c].pc = "handshake"],
        "connected", ConnectedOnce(t))

\* connect() up to its first suspension point
connect(st, c, origin) ==
  LET s0 == [st EXCEPT !.calls[c] = [pc |-> "start", origin |-> origin, result |-> "none"]]
  IN IF s0.isConnected THEN SettleCall(s0, c, "resolved")
     ELSE IF s0.isConnecting THEN [s0 EXCEPT !.calls[c].pc = "waiting"]
     ELSE IF onStatusCheck THEN [s0 EXCEPT !.calls[c].pc = "status"]
     ELSE _connect(s0, c)

\* whether a connect() made now runs _connect before suspending
ConnectsNow == ~isConnected /\ ~isConnecting /\ ~onStatusCheck

IdleCalls == {c \in Calls : calls[c].pc = "idle"}

NewCall == CHOOSE c \in IdleCalls : \A d \in IdleCalls : c <= d

\* the body of ws.onclose
onclose(st, t) ==
  LET wasConnected == st.isConnected
      s1 == emit([st EXCEPT !.transports[t] = "closed",
                            !.isConnected = FALSE,
                            !.isConnecting = FALSE],
                 "close", 0)
  IN IF s1.shouldReconnect /\ wasConnected THEN _scheduleReconnect(s1) ELSE s1

\* ws.close(): the transport starts closing; its close event comes later
CloseTransport(st, t) ==
  IF st.transports[t] \in {"connecting", "open"}
  THEN [st EXCEPT !.transports[t] = "closing"] ELSE st

\* A WebSocket object that is closed and that no timer, promise or field
\* references any more can no longer act: its slot is free again, and the
\* once('connected') wrapper its _connect call left behind is ConnectedOnce(0).
Unreferenced(st, t) ==
  /\ st.transports[t] = "closed"
  /\ ~st.connectionTimeout[t]
  /\ st.attemptCall[t] = 0
  /\ st.ws # t

Collect(st) ==
  [st EXCEPT
     !.transports = [t \in Transports |-> IF Unreferenced(st, t) THEN "none" ELSE @[t]],
     !.eventHandlers["connected"] =
        [i \in 1..Len(@) |->
           IF @[i].kind = "connected_once" /\ @[i].id # 0 /\ Unreferenced(st, @[i].id)
           THEN ConnectedOnce(0) ELSE @[i]]]

\* _scheduleReconnect can run before the next handshake: from the close of a
\* connected session, from an armed reconnect timer, or from the catch of a
\* timer callback whose connect() is in progress
CanSchedule(st) ==
  \/ st.isConnected
  \/ st.reconnectTimeout = "pending"
  \/ \E c \in Calls : st.calls[c].pc # "idle" /\ st.calls[c].origin = "timer"

\* sinceHandshake is kept while it can still be compared with a scheduling;
\* otherwise it follows the attempt counter
Recount(st) ==
  IF CanSchedule(st) THEN st ELSE [st EXCEPT !.sinceHandshake = st.reconnectAttempts]

\* a manager call is suspended on a request only while the request is pending
Release(st) ==
  [st EXCEPT !.awaiting = [r \in RequestIds |->
     IF st.requests[r].state = "pending" THEN @[r] ELSE NoAwait]]

\* end of a macrotask: run the released continuations, then commit
Finish(st, op) ==
  \E f \in {Recount(Release(Forget(Collect(RunMicrotasks(st)))))} :
     /\ ws' = f.ws
     /\ isConnected' = f.isConnected
     /\ isConnecting' = f.isConnecting
     /\ shouldReconnect' = f.shouldReconnect
     /\ reconnectAttempts' = f.reconnectAttempts
     /\ reconnectTimeout' = f.reconnectTimeout
     /\ pendingRequests' = f.pendingRequests
     /\ eventHandlers' = f.eventHandlers
     /\ transports' = f.transports
     /\ connectionTimeout' = f.connectionTimeout
     /\ attemptCall' = f.attemptCall
     /\ calls' = f.calls
     /\ requests' = f.requests
     /\ requestTimer' = f.requestTimer
     /\ sent' = f.sent
     /\ terminals' = f.terminals
     /\ awaiting' = f.awaiting
     /\ isWatching' = f.isWatching
     /\ handlers' = f.handlers
     /\ starting' = f.starting
     /\ scheduling' = f.scheduling
     /\ sinceHandshake' = f.sinceHandshake
     /\ invoked' = f.invoked
     /\ lastOp' = op
     /\ UNCHANGED onStatusCheck

\* lastOp is a history variable: it names the handler that ran last when that
\* leaves no other trace in the state: a send() call (res: what it did), a
\* disconnect() of a connected session, the close event of a transport
\* that ws.close() had closed (res: "disconnected" when it is the first event
\* after that disconnect()), a start() or stop() of the watcher, a
\* Terminal.close() and the receipt of a terminal_exited message
Op(name, res) ==
  IF name = "send" \/ (name = "onclose" /\ res # "remote")
       \/ (name = "disconnect" /\ res = "connected")
       \/ name \in {"start", "stop", "close"}
       \/ (name = "onmessage" /\ res = "terminal_exited")
  THEN [op |-> name, res |-> res] ELSE NoOp

\* Buffer.from(logs, 'base64'): the bytes of a base64 string, given as the
\* values (0..63) of its characters without padding: four characters carry
\* three bytes, a tail of three carries two, a tail of two carries one
RECURSIVE Buffer_from(_)
Buffer_from(chars) ==
  IF Len(chars) < 2 THEN << >>
  ELSE LET b1 == chars[1] * 4 + chars[2] \div 16
       IN IF Len(chars) = 2 THEN <<b1>>
          ELSE LET b2 == (chars[2] % 16) * 16 + chars[3] \div 4
               IN IF Len(chars) = 3 THEN <<b1, b2>>
                  ELSE <<b1, b2, (chars[3] % 4) * 64 + chars[4]>>
                         \o Buffer_from(SubSeq(chars, 5, Len(chars)))

\* TerminalManager.execute after `await this.connection.sendRequest(message)`:
\* the value it returns.  A reply reports its exit code n in one of three
\* places (shape): exit.code.exitCode (exit.code is then an object),
\* exit.code (a number) or exitCode; a JavaScript value is a record of its
\* type and, for a number, its value.  The replies carry no signal.
execute_resumes(response) ==
  IF response.error THEN response
  ELSE LET Undefined == [type |-> "undefined", value |-> 0]
           Number(n) == [type |-> "number", value |-> n]
           Or(a, b) == IF a.type = "undefined" \/ (a.type = "number" /\ a.value = 0)
                       THEN b ELSE a
           exit_code == CASE response.shape = "exit.code.exitCode" ->
                               [type |-> "object", value |-> response.code]
                          [] response.shape = "exit.code" -> Number(response.code)
                          [] OTHER -> Undefined
           exit_code_exitCode == IF exit_code.type = "object"
                                 THEN Number(exit_code.value) ELSE Undefined
           exitCode == IF response.shape = "exitCode"
                       THEN Number(response.code) ELSE Undefined
       IN [exitCode |-> Or(Or(Or(exit_code_exitCode, exit_code), exitCode), Number(0)),
           signal |-> Number(0),
           logs |-> Decode(Buffer_from(response.logs))]

\* what the handler of a text frame leaves in lastOp: the value an execute()
\* call returns when the frame resolved the request it awaits, or the
\* receipt of the message
Returned(before, st, msg) ==
  IF msg.requestId # 0 /\ before.awaiting[msg.requestId].kind = "execute"
       /\ st.requests[msg.requestId].state = "resolved"
  THEN [op |-> "execute", res |-> execute_resumes(msg)]
  ELSE Op("onmessage", msg.type)

(* ------------------------------ actions ------------------------------- *)
\* the caller calls connect()
Connect ==
  /\ IdleCalls # {}
  /\ ConnectsNow => FreeTransports(Cur) # {}
  /\ Finish(connect(Cur, NewCall, "user"), Op("connect", ""))

\* (mutant) a connect() that goes on to _connect whatever onStatusCheck returned
StatusCheckReturns_proceeds(c, isActive) ==
  /\ calls[c].pc = "status"
  /\ FreeTransports(Cur) # {}
  /\ Finish(_connect(Cur, c), Op("onStatusCheck", "active"))

\* the awaited onStatusCheck() of connect() call c returns isActive
StatusCheckReturns(c, isActive) ==
  /\ calls[c].pc = "status"
  /\ isActive => FreeTransports(Cur) # {}
  /\ Finish(IF isActive THEN _connect(Cur, c)
            ELSE SettleCall(Cur, c, "Sandbox is not active"),
            Op("onStatusCheck", IF isActive THEN "active" ELSE "inactive"))

\* (mutant) an onopen that treats the transport-level open as the handshake
ws_onopen_connects(t) ==
  /\ transports[t] = "connecting"
  /\ Finish(ConnectedHandler([Cur EXCEPT !.transports[t] = "open"], t), Op("onopen", ""))

\* ws.onopen: the transport-level open event (an empty handler)
ws_onopen(t) ==
  /\ transports[t] = "connecting"
  /\ Finish([Cur EXCEPT !.transports[t] = "open"], Op("onopen", ""))

\* ws.onerror
ws_onerror(t) ==
  /\ transports[t] \in {"connecting", "open"}
  /\ Finish(emit(Cur, "error", 0), Op("onerror", ""))

\* ws.onclose: the close event of a transport, closed by the peer, by the
\* network or by ws.close()
ws_onclose(t) ==
  /\ transports[t] \in {"connecting", "open", "closing"}
  /\ Finish(onclose(Cur, t),
            Op("onclose", IF transports[t] # "closing" THEN "remote"
                          ELSE IF lastOp.op = "disconnect" THEN "disconnected"
                          ELSE "local"))

\* the 10 s timer of the _connect call on transport t fires
ConnectionTimeoutFires(t) ==
  /\ connectionTimeout[t]
  /\ Finish(SettleCall([Cur EXCEPT !.connectionTimeout[t] = FALSE,
                                   !.isConnecting = FALSE],
                       attemptCall[t],
                       "Connection timeout - no confirmation received"),
            Op("connectionTimeout", ""))

\* the 100 ms interval of a connect() call that found isConnecting set
WaiterPolls(c) ==
  /\ calls[c].pc = "waiting"
  /\ isConnected \/ ~isConnecting
  /\ Finish(SettleCall(Cur, c, IF isConnected THEN "resolved" ELSE "Connection failed"),
            Op("checkInterval", ""))

\* the 10 s timer of such a call
WaiterTimesOut(c) ==
  /\ calls[c].pc = "waiting"
  /\ Finish(SettleCall(Cur, c, "Connection timeout"), Op("waitTimeout", ""))

\* the reconnect timer fires: its callback calls connect()
ReconnectTimerFires ==
  /\ reconnectTimeout = "pending"
  /\ IdleCalls # {}
  /\ ConnectsNow => FreeTransports(Cur) # {}
  /\ Finish(connect([Cur EXCEPT !.reconnectTimeout = "stale"], NewCall, "timer"),
            Op("reconnectTimer", ""))

\* (mutant) the rejection loop without pendingRequests.clear()
RejectAll_noClear(st) ==
  [st EXCEPT
     !.requests = [r \in RequestIds |->
        IF has(st, r)
        THEN [@[r] EXCEPT !.state = "rejected", !.result = "Connection closed",
                          !.settled = @ + 1]
        ELSE @[r]],
     !.requestTimer = [r \in RequestIds |-> IF has(st, r) THEN FALSE ELSE @[r]]]

\* pendingRequests.forEach(clearTimeout, reject); pendingRequests.clear()
RejectAll(st) ==
  [st EXCEPT
     !.requests = [r \in RequestIds |->
        IF has(st, r)
        THEN [@[r] EXCEPT !.state = "rejected", !.result = "Connection closed",
                          !.settled = @ + 1]
        ELSE @[r]],
     !.requestTimer = [r \in RequestIds |-> IF has(st, r) THEN FALSE ELSE @[r]],
     !.pendingRequests = [r \in RequestIds |-> Absent]]

\* (mutant) a disconnect() that leaves shouldReconnect set
disconnect_keepsFlag(st) ==
  LET s2 == IF st.reconnectTimeout # "null"
            THEN [st EXCEPT !.reconnectTimeout = "null"] ELSE st
      s3 == RejectAll(s2)
      s4 == IF s3.ws # 0 THEN [CloseTransport(s3, s3.ws) EXCEPT !.ws = 0] ELSE s3
  IN [s4 EXCEPT !.isConnected = FALSE, !.isConnecting = FALSE,
                !.reconnectAttempts = 0,
                !.sinceHandshake = Min(@, MaxUncounted)]

\* disconnect()
disconnect(st) ==
  LET s1 == [st EXCEPT !.shouldReconnect = FALSE]
      s2 == IF s1.reconnectTimeout # "null"
            THEN [s1 EXCEPT !.reconnectTimeout = "null"] ELSE s1
      s3 == RejectAll(s2)
      s4 == IF s3.ws # 0 THEN [CloseTransport(s3, s3.ws) EXCEPT !.ws = 0] ELSE s3
  IN [s4 EXCEPT !.isConnected = FALSE, !.isConnecting = FALSE,
                !.reconnectAttempts = 0,
                !.sinceHandshake = Min(@, MaxUncounted)]

Disconnect ==
  /\ Finish(disconnect(Cur), Op("disconnect", IF isConnected THEN "connected" ELSE ""))

\* a text frame arrives on an open transport
ws_onmessage(t, msg) ==
  /\ transports[t] = "open"
  /\ msg.requestId # 0 => requests[msg.requestId].state # "unused"
  /\ \E st \in {_handleTextMessage(Cur, msg)} :
       Finish(Resume(Cur, st, msg), Returned(Cur, st, msg))

\* (mutant) a sendRequest without the isConnected check
SendRequest_unchecked(m, outcome) ==
  /\ UnusedRequests # {}
  /\ outcome \in SendOutcomes(Cur)
  /\ Finish(sendRequest(Cur, _generateRequestId, m, outcome), Op("sendRequest", outcome))

\* the caller calls sendRequest(message, expectedTypes)
SendRequest(m, outcome) ==
  /\ UnusedRequests # {}
  /\ LET r == _generateRequestId
     IN IF ~isConnected
        THEN /\ outcome = "throws"
             /\ Finish(SettleRequest([Cur EXCEPT !.requests[r].key = ActionOrType(m),
                                              !.requests[r].explicit = Truthy(m.expectedTypes)],
                                       r, "rejected", "WebSocket not connected"),
                       Op("sendRequest", ""))
        ELSE /\ outcome \in SendOutcomes(Cur)
             /\ Finish(sendRequest(Cur, r, m, outcome), Op("sendRequest", outcome))

\* the 30 s timer of request r fires
RequestTimeoutFires(r) ==
  /\ requestTimer[r]
  /\ Finish(IF has(Cur, r)
            THEN SettleRequest([Cur EXCEPT !.requestTimer[r] = FALSE,
                                           !.pendingRequests[r] = Absent],
                               r, "rejected", "Request timeout")
            ELSE [Cur EXCEPT !.requestTimer[r] = FALSE],
            Op("requestTimeout", ""))

\* the caller calls send(message)
Send(outcome) ==
  /\ Cardinality({i \in 1..Len(sent) : sent[i] = 0}) < MaxSends
  /\ IF ~isConnected
     THEN /\ outcome = "throws"
          /\ Finish(Cur, Op("send", "WebSocket not connected"))
     ELSE /\ outcome \in SendOutcomes(Cur)
          /\ Finish(IF outcome = "written" THEN [Cur EXCEPT !.sent = Append(@, 0)] ELSE Cur,
                    Op("send", outcome))

Messages == [type : MsgTypes, requestId : {0} \cup RequestIds]

\* handlers registered, over all events
Registered ==
  Len(eventHandlers["connected"]) + Len(eventHandlers["ack"])
    + Len(eventHandlers["progress"])

\* the caller calls on(event, handler)
On(event, i) ==
  /\ Registered < MaxHandlers
  /\ Finish(on(Cur, event, UserHandler(i)), Op("on", event))

\* the caller calls off(event, handler)
Off(event, i) ==
  Finish(off(Cur, event, UserHandler(i)), Op("off", event))

\* the caller calls once(event, handler)
Once(event, i) ==
  /\ Registered < MaxHandlers
  /\ Finish(once(Cur, event, i), Op("once", event))

(* ------------------------- terminal sessions -------------------------- *)
\* the option sets create() and get() are called with
Options == [onData : {NoCallback, Returning}, onExit : {NoCallback} \cup UserHandlers]

\* payloads of binary frames: "hi", an empty payload, U+00E9 in UTF-8, and a
\* byte that is not UTF-8
Payloads == {<<104, 105>>, << >>, <<195, 169>>, <<255>>}
Frames == {<<c>> \o p : c \in TerminalIds, p \in Payloads} \cup {<< >>}

\* the text messages of the terminal protocol: terminalId undefined and
\* error FALSE stand for a message without that field.  Replies carry the id
\* of a call and, for terminal_created, the terminal id; terminal_exited is a
\* notification about a terminal.
TerminalMessages ==
  [type : {"terminal_created"}, requestId : RequestIds,
   terminalId : {undefined} \cup TerminalIds, error : BOOLEAN]
  \cup [type : {"terminal_closed", "terminal_error"}, requestId : RequestIds,
        terminalId : {undefined}, error : BOOLEAN]
  \cup [type : {"terminal_exited"}, requestId : {0}, terminalId : TerminalIds, error : {FALSE}]
  \cup [type : {"connected"}, requestId : {0}, terminalId : {undefined}, error : {FALSE}]

\* Terminal objects made or about to be made by a pending create()
Claimed ==
  Cardinality({s \in Sessions : terminals[s].made})
    + Cardinality({r \in RequestIds : awaiting[r].kind = "create"})

\* a binary frame arrives on an open transport
ws_onbinary(t, frame) ==
  /\ transports[t] = "open"
  /\ Finish(_handleBinaryMessage(Cur, frame), Op("onmessage", "binary"))

\* the caller registers a handler for an event of binary frames
Listen(event) ==
  /\ eventHandlers[event] = << >>
  /\ Finish(on(Cur, event, Listener), Op("on", event))

\* a manager call that reaches sendRequest(m) on a connected session and
\* suspends on it as a
Call(m, a, outcome) ==
  /\ UnusedRequests # {}
  /\ outcome \in SendOutcomes(Cur)
  /\ LET r == _generateRequestId
     IN Finish([sendRequest(Cur, r, m, outcome) EXCEPT !.awaiting[r] = a],
               Op("sendRequest", outcome))

\* TerminalManager.create(options) on a connected session (_ensureConnected
\* returns without calling connect())
TerminalManager_create(options, outcome) ==
  /\ isConnected
  /\ Claimed < MaxSessions
  /\ Call([action |-> "terminal_create", type |-> "", expectedTypes |-> Null],
          [NoAwait EXCEPT !.kind = "create", !.options = options], outcome)

\* TerminalManager.get(terminalId, options)
TerminalManager_get(terminalId, options) ==
  /\ Claimed < MaxSessions
  /\ Finish(Terminal(Cur, NewSession(Cur), terminalId, options), Op("get", ""))

\* TerminalManager.close(terminalId, force) on a connected session
TerminalManager_close(terminalId, outcome) ==
  /\ isConnected
  /\ Call([action |-> "terminal_close", type |-> "", expectedTypes |-> Null],
          [NoAwait EXCEPT !.kind = "manager_close", !.terminalId = terminalId], outcome)

\* the replies to the terminal_create request of execute(): the place of the
\* exit code, the code, and the base64 logs "b2sK" ("ok\n"), "" and "w6k"
\* (U+00E9)
ExecuteReplies ==
  [type : {"terminal_created", "terminal_error"}, requestId : RequestIds,
   error : BOOLEAN, shape : {"exit.code.exitCode", "exit.code", "exitCode"},
   code : {0, 1, 137}, logs : {<<27, 54, 44, 10>>, << >>, <<48, 58, 36>>}]

\* TerminalManager.execute(options) with a command, on a connected session
TerminalManager_execute(outcome) ==
  /\ isConnected
  /\ Call([action |-> "terminal_create", type |-> "", expectedTypes |-> Null],
          [NoAwait EXCEPT !.kind = "execute"], outcome)

\* (mutant) an onData that registers the new closure without removing the
\* one the field holds
Terminal_onData_keepsOld(s, callback) ==
  /\ terminals[s].made
  /\ terminals[s].dataClosure < MaxClosures
  /\ LET n == terminals[s].dataClosure + 1
     IN Finish(on([Cur EXCEPT !.terminals[s].onDataCallback = callback,
                              !.terminals[s]._dataHandler = TRUE,
                              !.terminals[s].dataClosure = n],
                  Channel(terminals[s].id), [DataHandler(s) EXCEPT !.closure = n]),
               Op("onData", ""))

\* Terminal.onData(callback) of object s: the handler the field holds is
\* removed, and a new closure is made, stored and registered
Terminal_onData(s, callback) ==
  /\ terminals[s].made
  /\ terminals[s].dataClosure < MaxClosures
  /\ LET T == terminals[s]
         n == T.dataClosure + 1
         s1 == IF T._dataHandler
               THEN off(Cur, Channel(T.id), [DataHandler(s) EXCEPT !.closure = T.dataClosure])
               ELSE Cur
     IN Finish(on([s1 EXCEPT !.terminals[s].onDataCallback = callback,
                             !.terminals[s]._dataHandler = TRUE,
                             !.terminals[s].dataClosure = n],
                  Channel(T.id), [DataHandler(s) EXCEPT !.closure = n]),
               Op("onData", ""))

\* Terminal.onExit(callback) of object s
Terminal_onExit(s, callback) ==
  /\ terminals[s].made
  /\ terminals[s].exitClosure < MaxClosures
  /\ LET T == terminals[s]
         n == T.exitClosure + 1
         s1 == IF T._exitHandler
               THEN off(Cur, "terminal_exited", [ExitHandler(s) EXCEPT !.closure = T.exitClosure])
               ELSE Cur
     IN Finish(on([s1 EXCEPT !.terminals[s].onExitCallback = callback,
                             !.terminals[s]._exitHandler = TRUE,
                             !.terminals[s].exitClosure = n],
                  "terminal_exited", [ExitHandler(s) EXCEPT !.closure = n]),
               Op("onExit", ""))

\* Terminal.close(force) of object s; on a session that is not connected
\* sendRequest throws and close() rejects
Terminal_close(s, outcome) ==
  /\ terminals[s].made
  /\ IF ~isConnected
     THEN /\ outcome = "throws"
          /\ Finish(Cur, Op("close", "WebSocket not connected"))
     ELSE Call([action |-> "terminal_close", type |-> "", expectedTypes |-> Null],
               [NoAwait EXCEPT !.kind = "close", !.session = s], outcome)

(* ---------------------------- change feed ----------------------------- *)
\* 'watch' and 'stop_watch' frames written so far
WatchFrames == Cardinality({i \in 1..Len(sent) : sent[i] < 0})

\* callbacks registered on the watcher, over all kinds
WatcherRegistered ==
  Len(handlers["add"]) + Len(handlers["change"]) + Len(handlers["unlink"]) + Len(handlers["error"])

\* (mutant) a start() without the isWatching test
WatcherManager_start_unguarded(options, outcome) ==
  /\ isConnected
  /\ outcome \in SendOutcomes(Cur)
  /\ Finish(IF outcome = "throws" THEN Cur
            ELSE RegisterCallbacks(
                   [Cur EXCEPT !.sent = IF outcome = "written" THEN Append(@, WatchFrame) ELSE @,
                               !.isWatching = TRUE], options),
            Op("start", outcome))

\* WatcherManager.start(options); when no watch is active, on a connected
\* session (_ensureConnected returns without calling connect())
WatcherManager_start(options, outcome) ==
  IF isWatching
  THEN /\ outcome = "written"
       /\ Finish(Cur, Op("start", "already watching"))
  ELSE /\ isConnected
       /\ outcome \in SendOutcomes(Cur)
       /\ Finish(IF outcome = "throws" THEN Cur
                 ELSE RegisterCallbacks(
                        [Cur EXCEPT !.sent = IF outcome = "written" THEN Append(@, WatchFrame) ELSE @,
                                    !.isWatching = TRUE], options),
                 Op("start", outcome))

\* WatcherManager.start(options) on a session that is not connected: after
\* the isWatching test, _ensureConnected calls connect() and start() suspends
\* on it
WatcherManager_start_awaits(options, closedSend) ==
  /\ ~isConnected
  /\ IF isWatching
     THEN /\ closedSend = "throws"
          /\ Finish(Cur, Op("start", "already watching"))
     ELSE /\ IdleCalls # {}
          /\ ConnectsNow => FreeTransports(Cur) # {}
          /\ Finish(connect([Cur EXCEPT !.starting[NewCall] =
                                [active |-> TRUE, options |-> options,
                                 closedSend |-> closedSend]],
                            NewCall, "user"),
                    Op("start", "connecting"))

\* WatcherManager.stop()
WatcherManager_stop(outcome) ==
  IF ~isWatching
  THEN /\ outcome = "written"
       /\ Finish(Cur, Op("stop", "not watching"))
  ELSE /\ IF isConnected THEN outcome \in SendOutcomes(Cur) ELSE outcome = "discarded"
       /\ Finish(IF outcome = "throws" THEN Cur
                 ELSE [Cur EXCEPT !.sent = IF outcome = "written" THEN Append(@, StopWatchFrame) ELSE @,
                                  !.isWatching = FALSE,
                                  !.handlers = [e \in WatchEvents |-> << >>]],
                 Op("stop", outcome))

\* WatcherManager.on(event, handler)
WatcherManager_on(event, i) ==
  Finish(Watcher_on(Cur, event, i), Op("on", event))

\* WatcherManager.off(event, handler)
WatcherManager_off(event, i) ==
  Finish([Cur EXCEPT !.handlers[event] =
            IF IndexOf(@, i) > 0 THEN RemoveAt(@, IndexOf(@, i)) ELSE @],
         Op("off", event))

Init ==
  /\ ws = 0
  /\ isConnected = FALSE
  /\ isConnecting = FALSE
  /\ shouldReconnect = TRUE
  /\ reconnectAttempts = 0
  /\ reconnectTimeout = "null"
  /\ pendingRequests = [r \in RequestIds |-> Absent]
  /\ eventHandlers = _setupEventListeners([e \in EventNames |-> << >>])
  /\ onStatusCheck \in BOOLEAN
  /\ transports = [t \in Transports |-> "none"]
  /\ connectionTimeout = [t \in Transports |-> FALSE]
  /\ attemptCall = [t \in Transports |-> 0]
  /\ calls = [c \in Calls |-> IdleCall]
  /\ requests = [r \in RequestIds |-> NoRequest]
  /\ requestTimer = [r \in RequestIds |-> FALSE]
  /\ sent = << >>
  /\ terminals = [s \in Sessions |-> NoTerminal]
  /\ awaiting = [r \in RequestIds |-> NoAwait]
  /\ isWatching = FALSE
  /\ handlers = [e \in WatchEvents |-> << >>]
  /\ starting = [c \in Calls |-> NoStart]
  /\ scheduling = NoScheduling
  /\ sinceHandshake = 0
  /\ invoked = << >>
  /\ lastOp = NoOp

Next ==
  \/ Connect
  \/ \E c \in Calls, a \in BOOLEAN : StatusCheckReturns(c, a)
  \/ \E t \in Transports : ws_onopen(t)
  \/ \E t \in Transports : ws_onerror(t)
  \/ \E t \in Transports : ws_onclose(t)
  \/ \E t \in Transports : ConnectionTimeoutFires(t)
  \/ \E c \in Calls : WaiterPolls(c)
  \/ \E c \in Calls : WaiterTimesOut(c)
  \/ ReconnectTimerFires
  \/ Disconnect
  \/ \E t \in Transports, msg \in Messages : ws_onmessage(t, msg)
  \/ \E m \in RequestInputs, o \in WsSendOutcomes : SendRequest(m, o)
  \/ \E r \in RequestIds : RequestTimeoutFires(r)
  \/ \E o \in WsSendOutcomes : Send(o)
  \/ \E e \in UserEvents, i \in UserHandlers : On(e, i)
  \/ \E e \in UserEvents, i \in UserHandlers : Off(e, i)
  \/ \E e \in UserEvents, i \in UserHandlers : Once(e, i)
  \/ \E t \in Transports, msg \in TerminalMessages : ws_onmessage(t, msg)
  \/ \E t \in Transports, frame \in Frames : ws_onbinary(t, frame)
  \/ \E e \in BinaryEvents : Listen(e)
  \/ \E options \in Options, o \in WsSendOutcomes : TerminalManager_create(options, o)
  \/ \E i \in TerminalIds, options \in Options : TerminalManager_get(i, options)
  \/ \E i \in TerminalIds, o \in WsSendOutcomes : TerminalManager_close(i, o)
  \/ \E s \in Sessions, o \in WsSendOutcomes : Terminal_close(s, o)
  \/ \E t \in Transports, msg \in WatchMessages : ws_onmessage(t, msg)
  \/ \E options \in WatchOptions, o \in WsSendOutcomes : WatcherManager_start(options, o)
  \/ \E o \in WsSendOutcomes : WatcherManager_stop(o)
  \/ \E e \in WatchEvents, i \in UserHandlers : WatcherManager_on(e, i)
  \/ \E e \in WatchEvents, i \in UserHandlers : WatcherManager_off(e, i)

\* fewer than MaxWrappers once('connected') wrappers are registered
WrapperRoom == Len(eventHandlers["connected"]) < MaxWrappers

\* the connection life cycle alone: no call is sent
NextConn ==
  \/ Connect /\ (ConnectsNow => WrapperRoom)
  \/ \E c \in Calls, a \in BOOLEAN : StatusCheckReturns(c, a) /\ (a => WrapperRoom)
  \/ \E t \in Transports : ws_onopen(t)
  \/ \E t \in Transports : ws_onerror(t)
  \/ \E t \in Transports : ws_onclose(t)
  \/ \E t \in Transports : ConnectionTimeoutFires(t)
  \/ \E c \in Calls : WaiterPolls(c)
  \/ \E c \in Calls : WaiterTimesOut(c)
  \/ ReconnectTimerFires /\ reconnectAttempts <= MaxReconnects
       /\ (ConnectsNow => WrapperRoom)
  \/ Disconnect
  \/ \E t \in Transports, msg \in Messages : ws_onmessage(t, msg)

Spec == Init /\ [][NextConn]_vars

\* calls and replies on a session without liveness predicate whose caller
\* makes one connect() at a time and one sendRequest()
InitReq == Init /\ ~onStatusCheck

NextReq ==
  \/ Connect /\ IdleCalls = Calls /\ (ConnectsNow => WrapperRoom)
  \/ \E t \in Transports : ws_onopen(t)
  \/ \E t \in Transports : ws_onclose(t)
  \/ \E t \in Transports : ConnectionTimeoutFires(t)
  \/ Disconnect
  \/ \E t \in Transports, msg \in Messages : ws_onmessage(t, msg)
  \/ \E m \in RequestInputs, o \in WsSendOutcomes :
        SendRequest(m, o) /\ UnusedRequests = RequestIds
  \/ \E r \in RequestIds : RequestTimeoutFires(r)
  \/ \E o \in WsSendOutcomes : Send(o)

\* no connect() call of the caller is in progress
CallerIdle == \A c \in Calls : calls[c].pc # "idle" => calls[c].origin = "timer"

\* the reconnect machinery against disconnect(): the caller calls connect()
\* only on a session that holds no transport of an earlier attempt, calls
\* disconnect() only when none of its connect() calls is in progress, and
\* never calls connect() after disconnect()
NextTeardown ==
  \/ Connect /\ shouldReconnect /\ FreeTransports(Cur) = Transports /\ (ConnectsNow => WrapperRoom)
  \/ \E c \in Calls, a \in BOOLEAN : StatusCheckReturns(c, a) /\ (a => WrapperRoom)
  \/ \E t \in Transports : ws_onopen(t)
  \/ \E t \in Transports : ws_onclose(t)
  \/ \E t \in Transports : ConnectionTimeoutFires(t)
  \/ \E c \in Calls : WaiterPolls(c)
  \/ \E c \in Calls : WaiterTimesOut(c)
  \/ ReconnectTimerFires /\ reconnectAttempts <= MaxReconnects
       /\ (ConnectsNow => WrapperRoom)
  \/ Disconnect /\ CallerIdle
  \/ \E t \in Transports, msg \in Messages : ws_onmessage(t, msg)

SpecTeardown == Init /\ [][NextTeardown]_vars

SpecReq == InitReq /\ [][NextReq]_vars

\* reconnection left to itself, on a session without liveness predicate: the
\* caller calls connect() when no wrapper of an earlier attempt is registered,
\* and disconnect() once, when none of its connect() calls is in progress
NextBackoff ==
  \/ Connect /\ shouldReconnect /\ eventHandlers["connected"] = << >>
  \/ \E t \in Transports : ws_onopen(t)
  \/ \E t \in Transports : ws_onclose(t)
  \/ \E t \in Transports : ConnectionTimeoutFires(t)
  \/ ReconnectTimerFires
  \/ Disconnect /\ CallerIdle /\ shouldReconnect
  \/ \E t \in Transports : ws_onmessage(t, [type |-> "connected", requestId |-> 0])

SpecBackoff == InitReq /\ [][NextBackoff]_vars

\* the handler registry: the caller registers and removes handlers around one
\* connect() and one sendRequest(), on a session without liveness predicate
NextEvents ==
  \/ Connect /\ IdleCalls = Calls /\ eventHandlers["connected"] = << >>
  \/ \E t \in Transports : ws_onopen(t)
  \/ \E t \in Transports, msg \in Messages : ws_onmessage(t, msg)
  \/ \E m \in RequestInputs, o \in WsSendOutcomes :
        SendRequest(m, o) /\ UnusedRequests = RequestIds
  \/ \E e \in UserEvents, i \in UserHandlers : On(e, i)
  \/ \E e \in UserEvents, i \in UserHandlers : Off(e, i)
  \/ \E e \in UserEvents, i \in UserHandlers : Once(e, i)

SpecEvents == InitReq /\ [][NextEvents]_vars

\* binary frames against Terminal objects obtained with get() (with or
\* without a data callback, without exit callback), on a session
\* without liveness predicate that connects once
NextFrames ==
  \/ Connect /\ IdleCalls = Calls /\ FreeTransports(Cur) = Transports
  \/ \E t \in Transports : ws_onopen(t)
  \/ \E t \in Transports : ws_onmessage(t, [type |-> "connected", requestId |-> 0])
  \/ \E t \in Transports, frame \in Frames : ws_onbinary(t, frame)
  \/ \E e \in BinaryEvents : Listen(e)
  \/ \E i \in TerminalIds, options \in Options :
        TerminalManager_get(i, options) /\ options.onExit = NoCallback

SpecFrames == InitReq /\ [][NextFrames]_vars

\* TerminalManager.create and TerminalManager.close and their replies, on a session without liveness
\* predicate that connects once
NextCreate ==
  \/ Connect /\ IdleCalls = Calls /\ FreeTransports(Cur) = Transports
  \/ \E t \in Transports : ws_onopen(t)
  \/ \E t \in Transports, msg \in TerminalMessages : ws_onmessage(t, msg)
  \/ \E t \in Transports, i \in TerminalIds : ws_onbinary(t, <<i>>)
  \/ \E options \in Options, o \in WsSendOutcomes : TerminalManager_create(options, o)
  \/ \E i \in TerminalIds, o \in WsSendOutcomes : TerminalManager_close(i, o)

SpecCreate == InitReq /\ [][NextCreate]_vars

\* Terminal objects obtained with get() for terminal 1, closed by the caller
\* or by the peer (which also reports the exit of other terminals), on a session without liveness predicate that connects once
NextTerminal ==
  \/ Connect /\ IdleCalls = Calls /\ FreeTransports(Cur) = Transports
  \/ \E t \in Transports : ws_onopen(t)
  \/ \E t \in Transports, msg \in TerminalMessages : ws_onmessage(t, msg)
  \/ \E options \in Options : TerminalManager_get(1, options)
  \/ \E s \in Sessions, o \in WsSendOutcomes : Terminal_close(s, o)

SpecTerminal == InitReq /\ [][NextTerminal]_vars

\* TerminalManager.execute and its replies, on a session without liveness
\* predicate that connects once
NextExecute ==
  \/ Connect /\ IdleCalls = Calls /\ FreeTransports(Cur) = Transports
  \/ \E t \in Transports : ws_onopen(t)
  \/ \E t \in Transports : ws_onmessage(t, [type |-> "connected", requestId |-> 0])
  \/ \E t \in Transports, msg \in ExecuteReplies : ws_onmessage(t, msg)
  \/ \E o \in WsSendOutcomes : TerminalManager_execute(o)

SpecExecute == InitReq /\ [][NextExecute]_vars

\* the callbacks of one Terminal object, obtained with get() for terminal 1
\* and then changed with onData() and onExit(), against frames, exit
\* notifications and close(), on a session without liveness predicate that
\* connects once
NextSession ==
  \/ Connect /\ IdleCalls = Calls /\ FreeTransports(Cur) = Transports
  \/ \E t \in Transports : ws_onopen(t)
  \/ \E t \in Transports, msg \in TerminalMessages :
        ws_onmessage(t, msg) /\ msg.type # "terminal_created"
  \/ \E t \in Transports, p \in {<<104, 105>>, << >>} : ws_onbinary(t, <<1>> \o p)
  \/ \E options \in Options :
        TerminalManager_get(1, options) /\ \A s \in Sessions : ~terminals[s].made
  \/ \E s \in Sessions, i \in UserHandlers : Terminal_onData(s, i)
  \/ \E s \in Sessions, i \in UserHandlers : Terminal_onExit(s, i)
  \/ \E s \in Sessions, o \in WsSendOutcomes : Terminal_close(s, o)

SpecSession == InitReq /\ [][NextSession]_vars

\* the change feed on a session without liveness predicate that connects once
\* and may be disconnected
NextWatcher ==
  \/ Connect /\ IdleCalls = Calls /\ FreeTransports(Cur) = Transports
  \/ \E t \in Transports : ws_onopen(t)
  \/ \E t \in Transports : ws_onclose(t)
  \/ \E t \in Transports : ws_onmessage(t, [type |-> "connected", requestId |-> 0])
  \/ \E t \in Transports, msg \in WatchMessages : ws_onmessage(t, msg)
  \/ \E options \in WatchOptions, o \in WsSendOutcomes :
        WatcherManager_start(options, o) /\ WatchFrames < MaxWatchFrames
          /\ WatcherRegistered < MaxWatchCallbacks - 1
  \/ \E o \in WsSendOutcomes : WatcherManager_stop(o)
  \/ \E e \in WatchEvents, i \in UserHandlers :
        WatcherManager_on(e, i) /\ WatcherRegistered < MaxWatchCallbacks
  \/ \E e \in WatchEvents, i \in UserHandlers : WatcherManager_off(e, i)

SpecWatcher == InitReq /\ [][NextWatcher]_vars

\* start() calls of the watcher made while the session is not connected, on
\* a session without liveness predicate
NextStart ==
  \/ \E options \in WatchOptions, closedSend \in {"throws", "discarded"} :
        /\ WatcherManager_start_awaits(options, closedSend)
        /\ WatchFrames + Cardinality({c \in Calls : starting[c].active}) < MaxWatchFrames
        /\ ConnectsNow => WrapperRoom
  \/ \E t \in Transports : ws_onopen(t)
  \/ \E t \in Transports : ws_onclose(t)
  \/ \E t \in Transports : ConnectionTimeoutFires(t)
  \/ \E c \in Calls : WaiterPolls(c)
  \/ \E c \in Calls : WaiterTimesOut(c)
  \/ \E t \in Transports : ws_onmessage(t, [type |-> "connected", requestId |-> 0])
  \/ \E t \in Transports, msg \in WatchMessages : ws_onmessage(t, msg)

SpecStart == InitReq /\ [][NextStart]_vars

\* several calls pending at once, on a session whose caller connects only
\* when no transport of an earlier attempt is left
NextCalls ==
  \/ Connect /\ IdleCalls = Calls /\ FreeTransports(Cur) = Transports /\ (ConnectsNow => WrapperRoom)
  \/ \E t \in Transports : ws_onopen(t)
  \/ \E t \in Transports : ws_onclose(t)
  \/ \E t \in Transports : ConnectionTimeoutFires(t)
  \/ Disconnect
  \/ \E t \in Transports, msg \in Messages : ws_onmessage(t, msg)
  \/ \E m \in RequestInputs, o \in WsSendOutcomes : SendRequest(m, o)
  \/ \E r \in RequestIds : RequestTimeoutFires(r)

SpecCalls == InitReq /\ [][NextCalls]_vars

\* the reconnect loop of a session without liveness predicate: the caller
\* connects once and may call disconnect() while a reconnect timer is armed
NextReconnect ==
  \/ Connect /\ shouldReconnect /\ IdleCalls = Calls /\ eventHandlers["connected"] = << >>
       /\ reconnectTimeout # "pending" /\ FreeTransports(Cur) = Transports
  \/ \E t \in Transports : ws_onopen(t)
  \/ \E t \in Transports : ws_onclose(t)
  \/ \E t \in Transports : ConnectionTimeoutFires(t)
  \/ ReconnectTimerFires
  \/ Disconnect /\ shouldReconnect /\ reconnectTimeout = "pending" /\ IdleCalls = Calls
  \/ \E t \in Transports : ws_onmessage(t, [type |-> "connected", requestId |-> 0])

\* ... with its timers: an armed reconnect timer fires, and an armed 10 s
\* connection timer does not stay armed for ever (ConnectionTimeoutFires(t) is
\* enabled exactly while connectionTimeout[t] holds, and falsifies it, so
\* this is WF_vars(ConnectionTimeoutFires(t))).  The model has MaxTransports
\* WebSocket objects: one that the session has abandoned is eventually closed
\* by its peer, which frees it for a later `new WebSocket` (the condition is
\* WF_vars(ws # t /\ ws_onclose(t)) by the same argument).
LiveReconnect ==
  /\ InitReq /\ [][NextReconnect]_vars
  /\ WF_vars(ReconnectTimerFires)
  /\ \A t \in Transports : []<>(~connectionTimeout[t])
  /\ \A t \in Transports : []<>(ws = t \/ transports[t] \notin {"connecting", "open", "closing"})

\* Spec with its timers: an armed connection timeout fires after 10 s, the
\* 100 ms interval and the 10 s timeout of a waiting connect() fire, and the
\* awaited onStatusCheck() returns
LiveConn ==
  /\ Spec
  /\ \A t \in Transports : WF_vars(ConnectionTimeoutFires(t))
  /\ \A c \in Calls : /\ WF_vars(WaiterPolls(c))
                       /\ WF_vars(WaiterTimesOut(c))
                       /\ WF_vars(StatusCheckReturns(c, FALSE))

\* SpecReq with its timers: an armed request timer fires after 30 s
LiveReq == SpecReq /\ \A r \in RequestIds : WF_vars(RequestTimeoutFires(r))

(* ============================ properties ============================== *)
\* a step in which _connect creates transport t
Created(t) == transports[t] = "none" /\ transports'[t] # "none"

\* a step in which a handshake message {type: 'connected'} is received
HandshakeReceived ==
  \E t \in Transports, m \in Messages : m.type = "connected" /\ ws_onmessage(t, m)

\* C1: connect() never opens a second transport: a transport is created only
\* while the session is neither connected nor has a connect attempt in flight
\* (a connect() made in those states returns or waits instead).
C1_NoSecondTransport ==
  [][\A t \in Transports : Created(t) => ~isConnected /\ ~isConnecting]_vars

\* C2: once disconnect() has returned and no connect() of the caller is in
\* progress, no reconnect timer is scheduled, no transport is created and the
\* session does not become connected.  (Checked under SpecTeardown, where the
\* caller never calls connect() after disconnect().)
C2_QuietAfterDisconnect ==
  [][(~shouldReconnect /\ CallerIdle)
       => /\ \A t \in Transports : ~Created(t)
          /\ reconnectTimeout' = "pending" => reconnectTimeout = "pending"
          /\ isConnected' => isConnected]_vars

\* C3: whenever a handshake message is received while a connect() call awaits
\* it, the session becomes connected and that call resolves.
C3_HandshakeResolvesConnect ==
  [][HandshakeReceived =>
       \A c \in Calls : calls[c].pc = "handshake" =>
          isConnected' /\ calls'[c].pc = "idle" /\ calls'[c].result = "resolved"]_vars

\* C4: the session becomes connected only in a step that receives a
\* 'connected' message on an open transport, a connect() call resolves only
\* with the session connected, and the transport-level open event changes
\* neither isConnected nor any connect() call.
C4_ConnectedOnlyByHandshake ==
  [][/\ (isConnected' /\ ~isConnected) => HandshakeReceived
     /\ \A c \in Calls : calls'[c].result = "resolved" => isConnected'
     /\ \A t \in Transports : ws_onopen(t) =>
           /\ isConnected' = isConnected
           /\ \A c \in Calls : calls'[c].pc = calls[c].pc /\ calls'[c].result = "none"]_vars

\* C4 witness: a connect() call has just resolved on a connected session whose
\* transport is open
C4_Witness ==
  /\ isConnected /\ ws # 0 /\ transports[ws] = "open"
  /\ \E c \in Calls : calls[c].result = "resolved"

\* C6: a transport closed by disconnect() is closed with shouldReconnect
\* already false, and its close event schedules no reconnect (the timer and
\* the attempt counter stay as they are).
C6_CloseAfterDisconnect ==
  /\ [](\A t \in Transports : transports[t] = "closing" => ~shouldReconnect)
  /\ [][\A t \in Transports : (transports[t] = "closing" /\ ws_onclose(t)) =>
           reconnectTimeout' = reconnectTimeout /\ reconnectAttempts' = reconnectAttempts]_vars

\* C6 witness: disconnect() was called on a connected session, the close
\* event of its transport has been handled, and no reconnect timer is set
C6_Witness ==
  lastOp = [op |-> "onclose", res |-> "disconnected"] /\ reconnectTimeout = "null"

Pending(r) == pendingRequests[r].kind # "absent"

\* C5: disconnect() rejects every call pending at that moment with
\* 'Connection closed', cancels its timer and leaves the table empty, with the
\* attempt counter zero and the session neither connected nor connecting; a
\* call rejected that way is never settled again.
C5_DisconnectRejectsPending ==
  /\ [](\A r \in RequestIds : requests[r].settled <= 1)
  /\ [][/\ Disconnect =>
            /\ \A r \in RequestIds :
                  /\ ~Pending(r)'
                  /\ Pending(r) => /\ requests'[r].state = "rejected"
                                    /\ requests'[r].result = "Connection closed"
                                    /\ requests'[r].settled = 1
                                    /\ ~requestTimer'[r]
            /\ reconnectAttempts' = 0 /\ ~isConnected' /\ ~isConnecting'
        /\ \A r \in RequestIds :
              requests[r].result = "Connection closed" => requests'[r] = requests[r]]_vars

\* C5 witness: two calls were pending when disconnect() ran; both are
\* rejected with 'Connection closed', once each
C5_Witness ==
  /\ \A r \in RequestIds : requests[r].result = "Connection closed" /\ requests[r].settled = 1
  /\ \A r \in RequestIds : ~Pending(r) /\ ~requestTimer[r]

\* C7: for a call sent with expected reply types {ack}, a same-id 'progress'
\* message leaves the call pending, in the table and with its timer armed; a
\* same-id 'ack' message resolves it with the ack message, removes it and
\* cancels the timer; it is resolved at most once and only by 'ack'.
C7_ProgressThenAck ==
  /\ [](\A r \in RequestIds :
          /\ requests[r].settled <= 1
          /\ (requests[r].state = "resolved" /\ requests[r].explicit) => requests[r].result = "ack")
  /\ [][\A r \in RequestIds, t \in Transports :
          (Pending(r) /\ pendingRequests[r] = Array({"ack"})) =>
            /\ ws_onmessage(t, [type |-> "progress", requestId |-> r]) =>
                  Pending(r)' /\ requestTimer'[r] /\ requests'[r].state = "pending"
            /\ ws_onmessage(t, [type |-> "ack", requestId |-> r]) =>
                  /\ requests'[r].state = "resolved" /\ requests'[r].result = "ack"
                  /\ requests'[r].settled = 1
                  /\ ~Pending(r)' /\ ~requestTimer'[r]]_vars

\* C7 witness: a call with expected types {ack} received 'progress', which
\* was passed over, and was then resolved by 'ack'
C7_Witness ==
  \E r \in RequestIds :
    /\ requests[r].explicit /\ requests[r].passed
    /\ requests[r].state = "resolved" /\ requests[r].result = "ack" /\ requests[r].settled = 1

\* C8: for a call sent without expectedTypes, the first inbound
\* message carrying its id resolves it, whatever the type of the message and
\* whatever the action or type of the request.
C8_AnyReplyResolves ==
  [][\A r \in RequestIds, t \in Transports, m \in Messages :
       (/\ m.requestId = r
        /\ requests[r].state = "pending" /\ ~requests[r].explicit /\ ~requests[r].passed
        /\ ws_onmessage(t, m))
       => requests'[r].state = "resolved" /\ requests'[r].result = m.type]_vars

\* C9: every call settles at most once; it is in the table exactly while it
\* is pending, and then its 30 s timer is armed; once settled (by a reply,
\* the timer, disconnect() or a failed write) nothing settles it again, a
\* later reply included; and a pending call does not stay pending forever.
C9_SettlesExactlyOnce ==
  /\ [](\A r \in RequestIds :
          /\ requests[r].settled <= 1
          /\ requests[r].state = "pending" <=> Pending(r)
          /\ requests[r].state = "pending" <=> requestTimer[r]
          /\ requests[r].state \in {"resolved", "rejected"} <=> requests[r].settled = 1)
  /\ [][\A r \in RequestIds :
          requests[r].state \in {"resolved", "rejected"} => requests'[r] = requests[r]]_vars
  /\ \A r \in RequestIds : (requests[r].state = "pending") ~> (requests[r].state # "pending")

\* C9 witness: a call was rejected by its timer
C9_Witness ==
  \E r \in RequestIds :
    requests[r].state = "rejected" /\ requests[r].result = "Request timeout" /\ requests[r].settled = 1

\* C10: sendRequest() and send() called while the session is not connected
\* fail with 'WebSocket not connected' and write nothing; sendRequest() then
\* adds no table entry and arms no timer.
C10_NotConnectedRejects ==
  [][~isConnected =>
       /\ \A m \in RequestInputs, o \in WsSendOutcomes :
             SendRequest(m, o) =>
               /\ sent' = sent /\ pendingRequests' = pendingRequests /\ requestTimer' = requestTimer
               /\ \E r \in RequestIds :
                    /\ requests[r].state = "unused" /\ requests'[r].state = "rejected"
                    /\ requests'[r].result = "WebSocket not connected"
       /\ \A o \in WsSendOutcomes :
             Send(o) => sent' = sent /\ lastOp' = [op |-> "send", res |-> "WebSocket not connected"]]_vars

\* C10 witness: a sendRequest() and then a send() were made while not
\* connected; both failed and nothing was written
C10_Witness ==
  /\ lastOp = [op |-> "send", res |-> "WebSocket not connected"]
  /\ \E r \in RequestIds : requests[r].result = "WebSocket not connected"
  /\ sent = << >>

\* C11: while the session is not connected no call is in the table: a close
\* of the session, by disconnect() or by the transport, rejects and removes
\* every pending call.
C11_NoPendingWhileClosed ==
  (~isConnected) => \A r \in RequestIds : ~Pending(r)

\* the delay min(1 s * 2^(k-1), 30 s) in ms: 1, 2, 4, 8, 16 s, then 30 s
ClaimedDelay(k) ==
  CASE k = 1 -> 1000 [] k = 2 -> 2000 [] k = 3 -> 4000 [] k = 4 -> 8000
    [] k = 5 -> 16000 [] OTHER -> 30000

\* the session becomes connected (a successful handshake)
BecomesConnected == ~isConnected /\ isConnected'

\* C12: the k-th reconnect scheduling since the last successful handshake
\* arms its timer with min(1 s * 2^(k-1), 30 s); each scheduling adds one to
\* the attempt counter and a successful handshake sets it to zero.
C12_BackoffDelays ==
  [][/\ scheduling'.kind = "timer" =>
          /\ scheduling'.delay = ClaimedDelay(sinceHandshake')
          /\ reconnectAttempts' = reconnectAttempts + 1
     /\ BecomesConnected => reconnectAttempts' = 0]_vars

\* C13: a scheduling made when maxReconnectAttempts timers were armed since
\* the last handshake arms no timer and emits 'reconnect_failed'; never more
\* than maxReconnectAttempts timers are armed between two handshakes; and
\* 'reconnect_failed' leaves no timer armed and no reconnect attempt running.
C13_ReconnectGivesUp ==
  /\ [](sinceHandshake <= maxReconnectAttempts)
  /\ [][/\ (sinceHandshake >= maxReconnectAttempts /\ scheduling'.kind # "none") =>
             scheduling'.kind = "reconnect_failed"
        /\ scheduling'.kind = "reconnect_failed" =>
             /\ reconnectTimeout' # "pending"
             /\ \A c \in Calls : calls'[c].origin = "timer" => calls'[c].pc = "idle"
             /\ \A t \in Transports : ~Created(t)]_vars

\* a transport that was created and is not closed
Unclosed(t) == transports[t] \in {"connecting", "open", "closing"}

\* C14: a transport is created only when every transport created earlier is
\* closed, so at most one transport is un-closed at any moment.
C14_OneTransport ==
  /\ [](Cardinality({t \in Transports : Unclosed(t)}) <= 1)
  /\ [][\A t \in Transports : Created(t) => \A u \in Transports : ~Unclosed(u)]_vars

\* C15: when the liveness predicate returns a negative result, the connect()
\* call fails (a reconnect attempt is rescheduled), no transport is created,
\* nothing is written and the session's connection state stays as it was:
\* disconnected, if it was neither connecting nor connected.
C15_InactiveFailsConnect ==
  [][\A c \in Calls : StatusCheckReturns(c, FALSE) =>
       /\ \A t \in Transports : ~Created(t)
       /\ ws' = ws /\ isConnected' = isConnected /\ isConnecting' = isConnecting
       /\ sent' = sent
       /\ calls'[c].pc = "idle"
       /\ calls[c].origin = "user" => calls'[c].result = "rejected"
       /\ calls[c].origin = "timer" => scheduling'.kind # "none"]_vars

\* C15 witness: connect() on a fresh or fully closed session was rejected by
\* a negative liveness result; no transport exists and the session is
\* neither connecting nor connected
C15_Witness ==
  /\ onStatusCheck
  /\ \E c \in Calls : calls[c].result = "rejected"
  /\ ~isConnected /\ ~isConnecting /\ ws = 0
  /\ \A t \in Transports : transports[t] = "none"
  /\ eventHandlers["connected"] = << >>

\* C16: every connect() call settles; the handshake resolves the call that
\* waits for it; a call that waited on another attempt resolves when the
\* session is connected and rejects when the attempt has failed; and after a
\* connection timeout the session is not connecting.
C16_ConnectSettles ==
  /\ \A c \in Calls : (calls[c].pc # "idle") ~> (calls[c].pc = "idle")
  /\ [][/\ HandshakeReceived => \A c \in Calls : calls'[c].pc # "handshake"
        /\ \A c \in Calls : WaiterPolls(c) =>
              /\ isConnected => calls'[c].result = "resolved"
              /\ (~isConnected /\ ~isConnecting) => calls'[c].result = "rejected"
              /\ (~isConnected /\ isConnecting) => calls'[c] = calls[c]
        /\ \A t \in Transports : ConnectionTimeoutFires(t) =>
              /\ ~isConnecting'
              /\ \A c \in Calls : (attemptCall[t] = c /\ calls[c].origin = "user") =>
                    calls'[c].result = "rejected"]_vars

\* the number of entries of sequence q equal to h
Count(q, h) == Cardinality({k \in 1..Len(q) : q[k] = h})

\* the inbound message that dispatches event e and belongs to no call
Dispatch(e) == \E t \in Transports : ws_onmessage(t, [type |-> e, requestId |-> 0])

\* C17: a dispatch of an event invokes each handler as many times as it is
\* registered for the event at that moment; on() adds one registration, off()
\* removes one, and off() of a handler that is not registered changes nothing.
C17_InvokedAsRegistered ==
  [][\A e \in UserEvents, i \in UserHandlers :
       /\ Dispatch(e) =>
            Count(invoked', UserHandler(i)) = Count(eventHandlers[e], UserHandler(i))
       /\ On(e, i) => Count(eventHandlers'[e], UserHandler(i))
                        = Count(eventHandlers[e], UserHandler(i)) + 1
       /\ Off(e, i) =>
            IF Count(eventHandlers[e], UserHandler(i)) = 0
            THEN eventHandlers' = eventHandlers
            ELSE Count(eventHandlers'[e], UserHandler(i))
                   = Count(eventHandlers[e], UserHandler(i)) - 1]_vars

\* C18: when a handler throws during the dispatch of an event, every handler
\* registered after it for that event is still invoked, and the requests and
\* the connection flags are what the dispatch would leave otherwise.
C18_ThrowDoesNotStopDispatch ==
  [][\A e \in UserEvents : Dispatch(e) =>
       /\ \A k \in 1..Len(eventHandlers[e]) :
            (eventHandlers[e][k] = UserHandler(Throwing) /\ Count(invoked', UserHandler(Throwing)) > 0)
            => \A j \in (k + 1)..Len(eventHandlers[e]) :
                 eventHandlers[e][j].kind \in {"user", "once"} =>
                   Count(invoked', eventHandlers[e][j]) > 0
       /\ pendingRequests' = pendingRequests /\ requests' = requests]_vars

\* C19: the dispatch of an event invokes every once() registration of the
\* event, and none of them is in the registry afterwards, whether its handler
\* returned or threw.
C19_OnceRunsOnce ==
  [][\A e \in UserEvents : Dispatch(e) =>
       \A k \in 1..Len(eventHandlers[e]) :
         eventHandlers[e][k].kind = "once" =>
           /\ Count(invoked', eventHandlers[e][k]) > 0
           /\ Count(eventHandlers'[e], eventHandlers[e][k]) = 0]_vars

\* C20: every inbound text message is emitted under its type: the handlers
\* registered for the type (here: plain handlers that return) are all invoked,
\* also when the message carries the id of a pending call.
C20_EveryMessageEmitted ==
  [][\A t \in Transports, m \in Messages :
       (/\ ws_onmessage(t, m)
        /\ m.type \in UserEvents
        /\ \A k \in 1..Len(eventHandlers[m.type]) :
              eventHandlers[m.type][k] = UserHandler(Returning))
       => invoked' = eventHandlers[m.type]]_vars

C30_RepliesMatchById ==
  [][\A t \in Transports, msg \in Messages : ws_onmessage(t, msg) =>
       \A r \in RequestIds :
         /\ r # msg.requestId =>
              requests'[r] = requests[r] /\ pendingRequests'[r] = pendingRequests[r]
         /\ (requests[r].state = "pending" /\ requests'[r].state = "resolved") =>
              r = msg.requestId /\ requests'[r].result = msg.type]_vars

\* C30 witness: the reply to the second call arrived first: the second call is
\* resolved while the first one is still pending
C30_Witness ==
  /\ requests[1].state = "pending" /\ Pending(1)
  /\ requests[2].state = "resolved"

\* the invocations of the caller's listener for event e recorded in q
ListenerCalls(q, e) ==
  {k \in 1..Len(q) : q[k].kind = "listener" /\ q[k].event = e}

\* the invocations of data callbacks recorded in q
DataCalls(q) == {k \in 1..Len(q) : q[k].kind = "onData"}

\* C21: a binary frame with first byte c and remaining bytes p is emitted as
\* exactly two events, the channel event of c carrying p and the generic event
\* carrying c and p; every Terminal object with id c and a data callback has
\* the callback invoked once, with the decoded p ("hi" for the bytes 'h','i'),
\* and no data callback of a Terminal object with another id is invoked.
C21_FrameDemultiplexed ==
  [][\A t \in Transports, frame \in Frames \ {<< >>} : ws_onbinary(t, frame) =>
       LET c == Head(frame)
           p == Tail(frame)
       IN /\ \A e \in BinaryEvents :
               Cardinality(ListenerCalls(invoked', e)) =
                 IF e \in {Channel(c), "binary"} /\ IndexOf(eventHandlers[e], Listener) > 0
                 THEN 1 ELSE 0
          /\ \A k \in ListenerCalls(invoked', Channel(c)) : invoked'[k].arg = p
          /\ \A k \in ListenerCalls(invoked', "binary") :
               invoked'[k].arg = [terminalId |-> c, output |-> p]
          /\ \A s \in Sessions :
               Cardinality({k \in DataCalls(invoked') : invoked'[k].id = s}) =
                 IF terminals[s].made /\ terminals[s].id = c
                      /\ terminals[s].onDataCallback # NoCallback
                 THEN 1 ELSE 0
          /\ \A k \in DataCalls(invoked') :
               /\ invoked'[k].text = Decode(p)
               /\ p = <<104, 105>> => invoked'[k].text = <<104, 105>>]_vars

\* C21 witness: of two Terminal objects with data callbacks and different ids,
\* a frame with payload 'h','i' has invoked the callback of one, with "hi", and
\* the listeners of its channel event and of the generic event
C21_Witness ==
  \E s, u \in Sessions :
    /\ terminals[s].made /\ terminals[u].made
    /\ terminals[s].id # terminals[u].id
    /\ terminals[s].onDataCallback # NoCallback /\ terminals[u].onDataCallback # NoCallback
    /\ \E k \in DataCalls(invoked) : invoked[k].id = s /\ invoked[k].text = <<104, 105>>
    /\ \A k \in DataCalls(invoked) : invoked[k].id # u
    /\ ListenerCalls(invoked, Channel(terminals[s].id)) # {}
    /\ ListenerCalls(invoked, "binary") # {}

\* C22: when the reply to the creation call is an error reply (its type is
\* terminal_error, or it carries an error field), create() constructs no
\* Terminal object and registers no handler on the connection.
C22_ErrorReplyCreatesNothing ==
  [][\A t \in Transports, msg \in TerminalMessages :
       (/\ ws_onmessage(t, msg)
        /\ msg.requestId # 0
        /\ awaiting[msg.requestId].kind = "create"
        /\ (msg.type = "terminal_error" \/ msg.error))
       => terminals' = terminals /\ eventHandlers' = eventHandlers]_vars

\* the handlers of Terminal object s that are in the registry reg
RegisteredHandlers(reg, s) ==
  {h \in {DataHandler(s), ExitHandler(s)} :
     \E e \in BinaryEvents \cup {"terminal_exited"} : IndexOf(reg[e], h) > 0}

\* C23: after TerminalManager.close(id) is acknowledged with terminal_closed,
\* no data handler and no exit handler of a Terminal object with that id is
\* left in the connection's registry.
C23_ManagerCloseDeregisters ==
  [][\A t \in Transports, msg \in TerminalMessages :
       (/\ ws_onmessage(t, msg)
        /\ msg.requestId # 0
        /\ awaiting[msg.requestId].kind = "manager_close"
        /\ msg.type = "terminal_closed" /\ ~msg.error)
       => \A s \in Sessions :
            (terminals[s].made /\ terminals[s].id = awaiting[msg.requestId].terminalId)
              => RegisteredHandlers(eventHandlers', s) = {}]_vars

\* C24: after a terminal_exited message for a terminal id is dispatched, no
\* handler of a Terminal object with that id is left in the registry, whether
\* or not the object has an exit callback.
C24_ExitDeregisters ==
  [][\A t \in Transports, msg \in TerminalMessages :
       (ws_onmessage(t, msg) /\ msg.type = "terminal_exited")
       => \A s \in Sessions :
            (terminals[s].made /\ terminals[s].id = msg.terminalId)
              => RegisteredHandlers(eventHandlers', s) = {}]_vars

\* a step in which Terminal.close() of object s resumes on the reply msg
CloseReplied(s, msg) ==
  /\ msg.requestId # 0
  /\ awaiting[msg.requestId].kind = "close" /\ awaiting[msg.requestId].session = s
  /\ requests'[msg.requestId].state = "resolved"
  /\ \E t \in Transports : ws_onmessage(t, msg)

\* Terminal object s holds no handler (after _cleanup, or made without callbacks)
Cleaned(s) ==
  terminals[s].made /\ ~terminals[s]._dataHandler /\ ~terminals[s]._exitHandler

\* C25: when Terminal.close() is acknowledged with terminal_closed, the data
\* and exit handlers of the object are removed from the registry and its
\* handler fields are null; a close() of an object already cleaned up, and the
\* reply to it, leave the registry and every Terminal object unchanged.
C25_CloseCleansUpOnce ==
  [][\A s \in Sessions :
       /\ \A msg \in TerminalMessages :
            (msg.type = "terminal_closed" /\ ~msg.error /\ CloseReplied(s, msg))
            => /\ RegisteredHandlers(eventHandlers', s) = {}
               /\ ~terminals'[s]._dataHandler /\ ~terminals'[s]._exitHandler
               /\ \A u \in Sessions \ {s} : terminals'[u] = terminals[u]
       /\ Cleaned(s) =>
            /\ \A o \in WsSendOutcomes : Terminal_close(s, o) =>
                  eventHandlers' = eventHandlers /\ terminals' = terminals
            /\ \A msg \in TerminalMessages : CloseReplied(s, msg) =>
                  eventHandlers' = eventHandlers /\ terminals' = terminals]_vars

\* C25 witness: the only Terminal object, made with a data callback, has been
\* closed twice; both close calls were acknowledged and no handler of it is
\* registered
C25_Witness ==
  \E s \in Sessions :
    /\ \A u \in Sessions : terminals[u].made <=> u = s
    /\ terminals[s].onDataCallback # NoCallback /\ Cleaned(s)
    /\ RegisteredHandlers(eventHandlers, s) = {}
    /\ \A r \in RequestIds : /\ requests[r].key = "terminal_close"
                              /\ requests[r].state = "resolved"
                              /\ requests[r].result = "terminal_closed"

\* every callback list of the watcher is empty
NoCallbacks == \A e \in WatchEvents : handlers[e] = << >>

\* C26: once stop() has returned, in whatever state it was called, the watch
\* is not active and every callback list is empty.
C26_StopClearsCallbacks ==
  lastOp.op = "stop" => (~isWatching /\ NoCallbacks)

\* C27: a start() called while a watch is active writes no frame, registers
\* none of its callbacks and leaves the callback lists and the active flag as
\* they are.
C27_SecondStartIgnored ==
  [][\A options \in WatchOptions, o \in WsSendOutcomes :
       (isWatching /\ WatcherManager_start(options, o))
       => sent' = sent /\ handlers' = handlers /\ isWatching']_vars

\* C27 witness: start() has just returned on a session whose watch was
\* already active: one 'watch' frame was written and the callbacks of the
\* first call are registered
C27_Witness ==
  /\ lastOp = [op |-> "start", res |-> "already watching"]
  /\ isWatching
  /\ Cardinality({i \in 1..Len(sent) : sent[i] = WatchFrame}) = 1
  /\ handlers["change"] # << >>

\* the invocations a notification of kind e makes: every callback of the list
\* of e, once, in order
Deliveries(e) == [k \in 1..Len(handlers[e]) |-> [kind |-> e, id |-> handlers[e][k]]]

\* C28: the dispatch of a change-feed notification invokes every callback
\* registered for its kind once, also after a callback that throws, invokes
\* no callback of another kind, and leaves the session and the callback lists
\* as they are.
C28_WatcherDelivery ==
  [][\A t \in Transports, msg \in WatchMessages : ws_onmessage(t, msg) =>
       /\ invoked' = Deliveries(WatchEvent(msg.type))
       /\ handlers' = handlers /\ isWatching' = isWatching
       /\ isConnected' = isConnected /\ eventHandlers' = eventHandlers]_vars

\* C28 witness: a notification has invoked a callback that throws and then the
\* callback registered after it
C28_Witness ==
  \E e \in WatchEvents :
    invoked = <<[kind |-> e, id |-> Throwing], [kind |-> e, id |-> Returning]>>

(* ------------------------- one-off execution -------------------------- *)
\* C31: when execute() returns on a reply without error field, exitCode is
\* the number the reply reports, wherever the reply carries it and also
\* when it is 0, and logs is the text the logs field encodes ("ok\n" for
\* "b2sK"); the call makes no Terminal object and registers no handler.
C31_ExecuteResult ==
  [][\A t \in Transports, msg \in ExecuteReplies :
       (~msg.error /\ lastOp'.op = "execute" /\ ws_onmessage(t, msg))
       => /\ lastOp'.res.exitCode = [type |-> "number", value |-> msg.code]
          /\ lastOp'.res.logs = CASE msg.logs = <<27, 54, 44, 10>> -> <<111, 107, 10>>
                                  [] msg.logs = <<48, 58, 36>> -> <<233>>
                                  [] OTHER -> << >>
          /\ terminals' = terminals
          /\ eventHandlers' = eventHandlers]_vars

(* ------------------- removal during a dispatch ------------------------ *)
\* C32: one dispatch of an event invokes every handler registered for it
\* when the dispatch starts exactly as often as it is registered, also when
\* one of them is a once() registration that removes itself while the
\* dispatch runs (here no handler removes another one).
C32_SelfRemovalSkipsNone ==
  [][\A e \in UserEvents :
       (\E i \in UserHandlers : Count(eventHandlers[e], OnceWrapper(i)) > 0) /\ Dispatch(e)
       => \A i \in UserHandlers :
            /\ Count(invoked', UserHandler(i)) = Count(eventHandlers[e], UserHandler(i))
            /\ Count(invoked', OnceWrapper(i)) = Count(eventHandlers[e], OnceWrapper(i))]_vars

(* ------------------- close events of old transports ------------------- *)
\* C33: the close event of a transport that is not the current one (this.ws
\* references another transport) leaves the session state alone: isConnected
\* and isConnecting keep their values and no reconnect is scheduled.
C33_StaleCloseIgnored ==
  [][\A t \in Transports :
       (ws # 0 /\ ws # t /\ ws_onclose(t))
       => /\ isConnected' = isConnected
          /\ isConnecting' = isConnecting
          /\ scheduling'.kind = "none"]_vars

(* --------------------- handshake after the timeout -------------------- *)
\* C34: once the 10 s timer of a connect attempt has fired (its timer is no
\* longer armed while its 'connected' wrapper is still registered) and no
\* other attempt exists, a handshake message arriving on that attempt's
\* transport does not make the session connected.
C34_LateHandshakeIgnored ==
  [][\A t \in Transports :
       (/\ transports[t] = "open" /\ ~connectionTimeout[t]
        /\ ~isConnected /\ ~isConnecting
        /\ IndexOf(eventHandlers["connected"], ConnectedOnce(t)) > 0
        /\ \A u \in Transports \ {t} : transports[u] = "none"
        /\ ws_onmessage(t, [type |-> "connected", requestId |-> 0]))
       => ~isConnected']_vars

(* ------------------ auto-reconnect after disconnect() ----------------- *)
\* C35: whenever a connected session loses its current transport without
\* having closed it, a reconnect is scheduled (a timer is armed or
\* 'reconnect_failed' is emitted), whether or not disconnect() was called
\* on the session before it was connected again.
C35_ReconnectAlwaysInForce ==
  [][\A t \in Transports :
       (isConnected /\ ws = t /\ transports[t] = "open" /\ ws_onclose(t))
       => scheduling'.kind # "none"]_vars

(* ---------------------- the three session states ---------------------- *)
\* C36: isConnected and isConnecting are never both true: the session is
\* disconnected, connecting or connected.
C36_OneSessionState == ~(isConnected /\ isConnecting)

(* ----------------------- overlapping start() calls -------------------- *)
\* C37: when a start() call resumes after its connect() while a watch is
\* already active (an overlapping start() call set the flag meanwhile), it
\* writes no second 'watch' message and registers no callbacks.
C37_OverlappingStartsWatchOnce ==
  [][\A c \in Calls :
       (starting[c].active /\ ~starting'[c].active /\ isWatching)
       => sent' = sent /\ handlers' = handlers]_vars

C39_OneHandlerPerSession ==
  /\ [](\A s \in Sessions, kind \in {"data", "exit"} :
          Cardinality(UNION {{<<e, k>> : k \in {j \in 1..Len(eventHandlers[e]) :
                                                  /\ eventHandlers[e][j].kind = kind
                                                  /\ eventHandlers[e][j].id = s}} :
                             e \in EventNames}) <= 1)
  /\ [][\A t \in Transports, p \in {<<104, 105>>, << >>} :
          ws_onbinary(t, <<1>> \o p) =>
            \A s \in Sessions :
              /\ Cardinality({k \in DataCalls(invoked') : invoked'[k].id = s}) =
                   IF terminals[s].made /\ terminals[s].id = 1 /\ terminals[s]._dataHandler
                   THEN 1 ELSE 0
              /\ \A k \in DataCalls(invoked') :
                   invoked'[k].id = s => invoked'[k].callback = terminals[s].onDataCallback]_vars

\* C39 witness: a Terminal object made with data callback Returning had it
\* replaced twice by onData(), last with Throwing, and its exit callback
\* replaced by onExit(); a frame for its id has then invoked Throwing, once
C39_Witness ==
  \E s \in Sessions :
    /\ terminals[s].made /\ terminals[s].dataClosure = MaxClosures
    /\ terminals[s].exitClosure > 0
    /\ terminals[s].onDataCallback = Throwing
    /\ Cardinality(DataCalls(invoked)) = 1
    /\ \A k \in DataCalls(invoked) :
         invoked[k] = [kind |-> "onData", id |-> s, callback |-> Throwing,
                       text |-> <<104, 105>>]

====
